---- MODULE Spec2Model ----
(***************************************************************************)
(* The two fake AWS servers of src/elb/elbtest/server.go: the ELB          *)
(* simulator (package elbtest) and the Route53 simulator (package          *)
(* route53test).  A request is the parsed form (req.Form): one record      *)
(* field per parameter the handlers read; an indexed parameter             *)
(* <Prefix>.member.<i> is position i of a sequence, and a position that    *)
(* holds "" (or lies past the end) is a parameter the request lacks.       *)
(***************************************************************************)
EXTENDS Integers, Sequences, FiniteSets, TLC

VARIABLES
    reqId,           \* elbtest.Server.reqId
    lbs,             \* elbtest.Server.lbs: name -> load balancer
    instances,       \* elbtest.Server.instances
    instanceStates,  \* elbtest.Server.instanceStates: name -> states
    instCount,       \* elbtest.Server.instCount
    lbTags,          \* elbtest.Server.lbTags: name -> tags
    r53ReqId,        \* route53test.Server.reqId
    records,         \* route53test.Server.records
    req,             \* the request being answered (NoReq between requests)
    resp,            \* what was written to the http.ResponseWriter
    created,         \* history, no state of the program: name -> the request
                     \* that created the load balancer now stored under it
    trip,            \* history, no state of the program: how far the DNS
                     \* requests answered so far are into a round trip
    mutex,           \* elbtest.Server.mutex: the connection holding it, or 0
    r53Mutex,        \* route53test.Server.mutex: the connection holding it, or 0
    conns,           \* the goroutines http.Serve started, one per connection:
                     \* where each is in serveHTTP, and its locals
    handed           \* history, no state of the program: the request ids
                     \* handed to the handlers of each server, in order

elbVars == <<reqId, lbs, instances, instanceStates, instCount, lbTags>>
r53Vars == <<r53ReqId, records, trip>>
connVars == <<mutex, r53Mutex, conns, handed>>
vars == <<reqId, lbs, instances, instanceStates, instCount, lbTags,
          r53ReqId, records, req, resp, created, trip,
          mutex, r53Mutex, conns, handed>>

----------------------------------------------------------------------------
(* Bounds of the model. *)

MaxReqId == 3        \* requests one server answers in a run
MaxInstCount == 2    \* NewInstance calls in a run
MaxRegistered == 2   \* instances RegisterInstance puts on one load balancer
MaxR53ReqId == 4     \* requests one DNS server routes in a run
MaxRecords == 3      \* record sets one DNS server holds
MaxServed == 2      \* request ids the two servers give in a run under fair scheduling
MaxClients == 2      \* connections open at a time

----------------------------------------------------------------------------
(* Strings the Go code converts. *)

DecDigits == <<"0", "1", "2", "3", "4", "5", "6", "7", "8", "9">>

RECURSIVE Itoa(_)
\* fmt.Sprintf("%d", n), n >= 0
Itoa(n) == IF n < 10 THEN DecDigits[n + 1]
           ELSE Itoa(n \div 10) \o DecDigits[(n % 10) + 1]

\* the numbers the requests write, as decimal numerals
Numbers == {0, 2, 5, 10, 30, 80, 443, 8080}

\* strconv.Atoi and strconv.ParseInt succeed on s
IsNumeral(s) == \E n \in Numbers : Itoa(n) = s

\* strconv.Atoi with its error dropped: 0 for what is not a number
Atoi(s) == IF IsNumeral(s) THEN CHOOSE n \in Numbers : Itoa(n) = s ELSE 0

\* strings.ToUpper on the protocol names the requests use
ToUpper(s) ==
    CASE s = "http" -> "HTTP"
      [] s = "https" -> "HTTPS"
      [] s = "tcp" -> "TCP"
      [] s = "ssl" -> "SSL"
      [] OTHER -> s

HexDigits == <<"0", "1", "2", "3", "4", "5", "6", "7", "8", "9",
               "A", "B", "C", "D", "E", "F">>

RECURSIVE Hex(_)
\* the %0X verb
Hex(n) == IF n < 16 THEN HexDigits[n + 1]
          ELSE Hex(n \div 16) \o HexDigits[(n % 16) + 1]

\* fmt.Sprintf("req%0X", srv.reqId)
FormatReqId(n) == "req" \o Hex(n)

----------------------------------------------------------------------------
(* Go maps as functions on the set of their keys. *)

MapSet(m, k, v) == [x \in DOMAIN m \cup {k} |-> IF x = k THEN v ELSE m[x]]

MapDelete(m, k) == [x \in DOMAIN m \ {k} |-> m[x]]

\* a read of a map of slices: the nil slice for a missing key
MapSlice(m, k) == IF k \in DOMAIN m THEN m[k] ELSE <<>>

EmptyMap == [x \in {} |-> <<>>]

\* a[:len(a)-1]
Front(s) == SubSeq(s, 1, Len(s) - 1)

\* the sequence s without position i, the rest in order
RemoveAt(s, i) == SubSeq(s, 1, i - 1) \o SubSeq(s, i + 1, Len(s))

\* all orders in which a range over a map can visit the keys
Orders(S) == {o \in [1..Cardinality(S) -> S] : \A k \in S : \E i \in DOMAIN o : o[i] = k}

----------------------------------------------------------------------------
(* The request form. *)

EmptyListenerParam ==
    [Protocol |-> "", InstanceProtocol |-> "", InstancePort |-> "",
     LoadBalancerPort |-> "", SSLCertificateId |-> ""]

EmptyHealthCheckParam ==
    [HealthyThreshold |-> "", Interval |-> "", Target |-> <<>>,
     Timeout |-> "", UnhealthyThreshold |-> ""]

EmptyForm ==
    [Action |-> "", LoadBalancerName |-> "", AvailabilityZones |-> <<>>,
     Subnets |-> <<>>, SecurityGroups |-> <<>>, Scheme |-> "",
     Listeners |-> <<>>, HealthCheck |-> EmptyHealthCheckParam,
     Instances |-> <<>>, LoadBalancerNames |-> <<>>,
     LoadBalancerPorts |-> <<>>, LoadBalancerPort |-> "",
     SSLCertificateId |-> "", Tags |-> <<>>]

NoReq == [EmptyForm EXCEPT !.Action = "-"]

\* <Prefix>.member.<i> of a list of strings
Member(list, i) == IF i \in 1..Len(list) THEN list[i] ELSE ""

\* Listeners.member.<i>.<field>
ListenerParam(form, i) ==
    IF i \in 1..Len(form.Listeners) THEN form.Listeners[i] ELSE EmptyListenerParam

\* req.FormValue(key) == "" for the keys validate and validateComposition are given
FormValueEmpty(form, key) ==
    CASE key = "LoadBalancerName" -> form.LoadBalancerName = ""
      [] key = "Listeners.member.1.InstancePort" -> ListenerParam(form, 1).InstancePort = ""
      [] key = "Listeners.member.1.InstanceProtocol" -> ListenerParam(form, 1).InstanceProtocol = ""
      [] key = "Listeners.member.1.Protocol" -> ListenerParam(form, 1).Protocol = ""
      [] key = "Listeners.member.1.LoadBalancerPort" -> ListenerParam(form, 1).LoadBalancerPort = ""
      [] key = "AvailabilityZones.member.1" -> Member(form.AvailabilityZones, 1) = ""
      [] key = "Subnets.member.1" -> Member(form.Subnets, 1) = ""
      [] key = "Instances.member.1.InstanceId" -> Member(form.Instances, 1) = ""
      [] key = "HealthCheck.HealthyThreshold" -> form.HealthCheck.HealthyThreshold = ""
      [] key = "HealthCheck.Interval" -> form.HealthCheck.Interval = ""
      [] key = "HealthCheck.Target" -> form.HealthCheck.Target = <<>>
      [] key = "HealthCheck.Timeout" -> form.HealthCheck.Timeout = ""
      [] key = "HealthCheck.UnhealthyThreshold" -> form.HealthCheck.UnhealthyThreshold = ""
      [] OTHER -> TRUE

RECURSIVE ProbeFrom(_, _)
\* the loop "probe index i, i+1, ... until the value is empty": the last
\* index probed with a value, over a list of strings
ProbeFrom(list, i) == IF Member(list, i) = "" THEN i - 1 ELSE ProbeFrom(list, i + 1)

----------------------------------------------------------------------------
(* Errors and the outcome of a handler. *)

NoError == [StatusCode |-> 0, Code |-> "", Message |-> ""]

\* &elb.Error{StatusCode: 400, Code: code, Message: message}
ElbError(code, message) == [StatusCode |-> 400, Code |-> code, Message |-> message]

\* return resp, nil: the payload, and the store the handler leaves
Return(body, newLbs, newStates, newTags) ==
    [kind |-> "ok", err |-> NoError, body |-> body,
     lbs |-> newLbs, instanceStates |-> newStates, lbTags |-> newTags]

\* return nil, err, from a handler that has not written the store yet
Fail(e) ==
    [kind |-> "error", err |-> e, body |-> <<>>,
     lbs |-> lbs, instanceStates |-> instanceStates, lbTags |-> lbTags]

\* a run-time panic in the handler: net/http recovers it, the deferred
\* Unlock runs, nothing is written to the response
Panic(newLbs, newStates, newTags) ==
    [kind |-> "panic", err |-> NoError, body |-> <<>>,
     lbs |-> newLbs, instanceStates |-> newStates, lbTags |-> newTags]

----------------------------------------------------------------------------
(* The validators. *)

validate_skipFirst(form, required) ==
    LET missing == {i \in 2..Len(required) : FormValueEmpty(form, required[i])}
    IN  IF missing = {} THEN NoError
        ELSE ElbError("ValidationError",
                      required[CHOOSE i \in missing : \A j \in missing : i <= j]
                          \o " is required.")

validate(form, required) ==
    LET missing == {i \in 1..Len(required) : FormValueEmpty(form, required[i])}
    IN  IF missing = {} THEN NoError
        ELSE ElbError("ValidationError",
                      required[CHOOSE i \in missing : \A j \in missing : i <= j]
                          \o " is required.")

validateComposition_noNeither(form, composition) ==
    LET k == composition[1][1]
        v == composition[1][2]
    IN  IF ~FormValueEmpty(form, k) /\ ~FormValueEmpty(form, v)
        THEN ElbError("ValidationError",
                      "Only one of " \o k \o " or " \o v \o " may be specified")
        ELSE NoError

\* composition holds one pair, so the range over the map has one order
validateComposition(form, composition) ==
    LET k == composition[1][1]
        v == composition[1][2]
    IN  IF ~FormValueEmpty(form, k) /\ ~FormValueEmpty(form, v)
        THEN ElbError("ValidationError",
                      "Only one of " \o k \o " or " \o v \o " may be specified")
        ELSE IF FormValueEmpty(form, k) /\ FormValueEmpty(form, v)
        THEN ElbError("ValidationError",
                      "Either " \o k \o " or " \o v \o " must be specified")
        ELSE NoError

lbExists(name) ==
    IF name \notin DOMAIN lbs
    THEN ElbError("LoadBalancerNotFound",
                  "There is no ACTIVE Load Balancer named '" \o name \o "'")
    ELSE NoError

instanceExists_any(id) == NoError

instanceExists(id) ==
    IF \E i \in 1..Len(instances) : instances[i] = id
    THEN NoError
    ELSE ElbError("InvalidInstance",
                  "InvalidInstance found in [" \o id \o "]. Invalid id: \"" \o id \o "\"")

----------------------------------------------------------------------------
(* Building a load balancer from a form. *)

getParameters(list) == SubSeq(list, 1, ProbeFrom(list, 1))

makeHealthCheck(form) ==
    LET hc == form.HealthCheck
    IN  [HealthyThreshold |->
             IF hc.HealthyThreshold # "" THEN Atoi(hc.HealthyThreshold) ELSE 10,
         Interval |-> IF hc.Interval # "" THEN Atoi(hc.Interval) ELSE 30,
         Target |-> IF hc.Target # <<>> THEN hc.Target
                    ELSE <<"T", "C", "P", ":", "8", "0">>,
         Timeout |-> IF hc.Timeout # "" THEN Atoi(hc.Timeout) ELSE 5,
         UnhealthyThreshold |->
             IF hc.UnhealthyThreshold # "" THEN Atoi(hc.UnhealthyThreshold) ELSE 2]

RECURSIVE ProbeListeners(_, _)
\* the last index i, counting from the given one, up to which every
\* Listeners.member.<i>.Protocol has a value
ProbeListeners(form, i) ==
    IF ListenerParam(form, i).Protocol = "" THEN i - 1 ELSE ProbeListeners(form, i + 1)

makeListener(p) ==
    [Protocol |-> ToUpper(p.Protocol),
     InstanceProtocol |-> ToUpper(p.InstanceProtocol),
     SSLCertificateId |-> p.SSLCertificateId,
     LoadBalancerPort |-> Atoi(p.LoadBalancerPort),
     InstancePort |-> Atoi(p.InstancePort)]

\* the loop of makeLoadBalancer that builds lds
makeListeners(form) ==
    [i \in 1..ProbeListeners(form, 1) |-> makeListener(ListenerParam(form, i))]

makeLoadBalancer_noDefaultScheme(form) ==
    [LoadBalancerName |-> form.LoadBalancerName,
     DNSName |-> "",
     Scheme |-> form.Scheme,
     AvailabilityZones |-> getParameters(form.AvailabilityZones),
     Subnets |-> getParameters(form.Subnets),
     SecurityGroups |-> getParameters(form.SecurityGroups),
     HealthCheck |-> makeHealthCheck(form),
     Listeners |-> makeListeners(form),
     Instances |-> <<>>]

makeLoadBalancer(form) ==
    [LoadBalancerName |-> form.LoadBalancerName,
     DNSName |-> "",
     Scheme |-> IF form.Scheme = "" THEN "internet-facing" ELSE form.Scheme,
     AvailabilityZones |-> getParameters(form.AvailabilityZones),
     Subnets |-> getParameters(form.Subnets),
     SecurityGroups |-> getParameters(form.SecurityGroups),
     HealthCheck |-> makeHealthCheck(form),
     Listeners |-> makeListeners(form),
     Instances |-> <<>>]

\* the zero elb.LoadBalancer that NewLoadBalancer fills in
ZeroLoadBalancer ==
    [LoadBalancerName |-> "", DNSName |-> "", Scheme |-> "",
     AvailabilityZones |-> <<>>, Subnets |-> <<>>, SecurityGroups |-> <<>>,
     HealthCheck |-> [HealthyThreshold |-> 0, Interval |-> 0, Target |-> <<>>,
                      Timeout |-> 0, UnhealthyThreshold |-> 0],
     Listeners |-> <<>>, Instances |-> <<>>]

makeInstanceState(id) ==
    [Description |-> "Instance is in pending state.", InstanceId |-> id,
     State |-> "OutOfService", ReasonCode |-> "Instance"]

----------------------------------------------------------------------------
(* The handlers of the load balancer API.  Each gives the set of outcomes *)
(* the handler can have in the current store: one, except where a range   *)
(* over a map decides the order of the answer.                            *)

createLoadBalancer(form, rid) ==
    LET composition == << <<"AvailabilityZones.member.1", "Subnets.member.1">> >>
        required == <<"Listeners.member.1.InstancePort",
                      "Listeners.member.1.InstanceProtocol",
                      "Listeners.member.1.Protocol",
                      "Listeners.member.1.LoadBalancerPort",
                      "LoadBalancerName">>
        lbName == form.LoadBalancerName
        lb == [makeLoadBalancer(form) EXCEPT
                  !.DNSName = lbName \o "-some-aws-stuff.us-east-1.elb.amazonaws.com"]
    IN  IF validateComposition(form, composition) # NoError
        THEN {Fail(validateComposition(form, composition))}
        ELSE IF validate(form, required) # NoError
        THEN {Fail(validate(form, required))}
        ELSE {Return([DNSName |-> lb.DNSName], MapSet(lbs, lbName, lb),
                     instanceStates, lbTags)}

deleteLoadBalancer_checked(form, rid) ==
    IF validate(form, <<"LoadBalancerName">>) # NoError
    THEN {Fail(validate(form, <<"LoadBalancerName">>))}
    ELSE IF lbExists(form.LoadBalancerName) # NoError
    THEN {Fail(lbExists(form.LoadBalancerName))}
    ELSE {Return([RequestId |-> rid], MapDelete(lbs, form.LoadBalancerName),
                 instanceStates, lbTags)}

deleteLoadBalancer(form, rid) ==
    IF validate(form, <<"LoadBalancerName">>) # NoError
    THEN {Fail(validate(form, <<"LoadBalancerName">>))}
    ELSE {Return([RequestId |-> rid], MapDelete(lbs, form.LoadBalancerName),
                 instanceStates, lbTags)}

describeLoadBalancers(form, rid) ==
    LET n == ProbeFrom(form.LoadBalancerNames, 1)
        unknown == {i \in 1..n : lbExists(form.LoadBalancerNames[i]) # NoError}
    IN  IF unknown # {}
        THEN {Fail(lbExists(form.LoadBalancerNames[
                       CHOOSE i \in unknown : \A j \in unknown : i <= j]))}
        ELSE {Return([LoadBalancers |-> [i \in DOMAIN o |-> lbs[o[i]]]],
                     lbs, instanceStates, lbTags) : o \in Orders(DOMAIN lbs)}

\* the first listener of news whose port an existing listener has, if any
PortCollision(news, existing) ==
    \E i \in 1..Len(news) : \E j \in 1..Len(existing) :
        news[i].LoadBalancerPort = existing[j].LoadBalancerPort

createLoadBalancerListeners(form, rid) ==
    LET lbName == form.LoadBalancerName
        listeners == makeListeners(form)
    IN  IF lbName \notin DOMAIN lbs
        THEN \* srv.lbs[lbName] is nil: the read or the write of .Listeners panics
             {Panic(lbs, instanceStates, lbTags)}
        ELSE IF PortCollision(listeners, lbs[lbName].Listeners)
        THEN {Fail(ElbError("400", "Bad Request"))}
        ELSE {Return([RequestId |-> ""],
                     [lbs EXCEPT ![lbName].Listeners = listeners],
                     instanceStates, lbTags)}

\* the loop over lb.Listeners of deleteLoadBalancerListeners
listenersToKeep(listeners, lbPorts) ==
    LET keep == {i \in 1..Len(listeners) :
                    \A k \in 1..Len(lbPorts) : listeners[i].LoadBalancerPort # lbPorts[k]}
        F[i \in 0..Len(listeners)] ==
            IF i = 0 THEN <<>>
            ELSE IF i \in keep THEN Append(F[i - 1], listeners[i]) ELSE F[i - 1]
    IN  F[Len(listeners)]

deleteLoadBalancerListeners_keepFirst(form, rid) ==
    LET lbName == form.LoadBalancerName
        n == ProbeFrom(form.LoadBalancerPorts, 1)
        lbPorts == [i \in 1..n |-> Atoi(form.LoadBalancerPorts[i])]
    IN  IF lbName \notin DOMAIN lbs
        THEN {Fail(ElbError("AccessPointNotFound",
                            "The specified load balancer does not exist."))}
        ELSE IF \E i \in 1..n : ~IsNumeral(form.LoadBalancerPorts[i])
        THEN {Panic(lbs, instanceStates, lbTags)}
        ELSE {Return([RequestId |-> ""],
                     [lbs EXCEPT ![lbName].Listeners =
                         IF @ = <<>> THEN <<>>
                         ELSE <<@[1]>> \o listenersToKeep(Tail(@), lbPorts)],
                     instanceStates, lbTags)}

deleteLoadBalancerListeners(form, rid) ==
    LET lbName == form.LoadBalancerName
        n == ProbeFrom(form.LoadBalancerPorts, 1)
        lbPorts == [i \in 1..n |-> Atoi(form.LoadBalancerPorts[i])]
    IN  IF lbName \notin DOMAIN lbs
        THEN {Fail(ElbError("AccessPointNotFound",
                            "The specified load balancer does not exist."))}
        ELSE IF \E i \in 1..n : ~IsNumeral(form.LoadBalancerPorts[i])
        THEN \* strconv.ParseInt fails: panic(err), before lb is written
             {Panic(lbs, instanceStates, lbTags)}
        ELSE {Return([RequestId |-> ""],
                     [lbs EXCEPT ![lbName].Listeners = listenersToKeep(@, lbPorts)],
                     instanceStates, lbTags)}

setLoadBalancerListenerSSLCertificate(form, rid) ==
    LET lbName == form.LoadBalancerName
        hits == IF lbName \in DOMAIN lbs
                THEN {i \in 1..Len(lbs[lbName].Listeners) :
                         Itoa(lbs[lbName].Listeners[i].LoadBalancerPort)
                             = form.LoadBalancerPort}
                ELSE {}
        first == CHOOSE i \in hits : \A j \in hits : i <= j
    IN  IF lbName \notin DOMAIN lbs
        THEN {Fail(ElbError("AccessPointNotFound",
                            "The specified load balancer does not exist."))}
        ELSE IF hits # {}
        THEN {Return([RequestId |-> ""],
                     [lbs EXCEPT ![lbName].Listeners[first].SSLCertificateId =
                                     form.SSLCertificateId],
                     instanceStates, lbTags)}
        ELSE {Fail(ElbError("ListenerNotFound",
                 "The load balancer does not have a listener configured at the specified port."))}

----------------------------------------------------------------------------
(* Instances of a load balancer. *)

\* the first index from 1 at which the listed id is no known instance, or 0
FirstUnknown(ids) ==
    LET bad == {i \in 1..Len(ids) : instanceExists(ids[i]) # NoError}
    IN  IF bad = {} THEN 0 ELSE CHOOSE i \in bad : \A j \in bad : i <= j

registerInstancesWithLoadBalancer(form, rid) ==
    LET lbName == form.LoadBalancerName
        n == ProbeFrom(form.Instances, 1)
        instIds == SubSeq(form.Instances, 1, n)
        newInstances == [i \in 1..n |-> [InstanceId |-> instIds[i]]]
        \* instId after the loop: the probe that ended it
        instId == Member(form.Instances, n + 1)
        required == <<"LoadBalancerName", "Instances.member.1.InstanceId">>
    IN  IF validate(form, required) # NoError
        THEN {Fail(validate(form, required))}
        ELSE IF lbExists(lbName) # NoError
        THEN {Fail(lbExists(lbName))}
        ELSE IF FirstUnknown(instIds) # 0
        THEN {Fail(instanceExists(instIds[FirstUnknown(instIds)]))}
        ELSE {Return([Instances |-> newInstances],
                     [lbs EXCEPT ![lbName].Instances = @ \o newInstances],
                     MapSet(instanceStates, lbName,
                            Append(MapSlice(instanceStates, lbName),
                                   makeInstanceState(instId))),
                     lbTags)}

removeInstanceFromLB(lbInstances, id) ==
    LET hits == {i \in 1..Len(lbInstances) : lbInstances[i].InstanceId = id}
    IN  IF hits = {} THEN lbInstances
        ELSE RemoveAt(lbInstances, CHOOSE i \in hits : \A j \in hits : i <= j)

\* a[i], a = a[len(a)-1], a[:len(a)-1] at the first state of the given id
removeInstanceStates(states, id) ==
    LET hits == {i \in 1..Len(states) : states[i].InstanceId = id}
        first == CHOOSE i \in hits : \A j \in hits : i <= j
    IN  IF hits = {} THEN states
        ELSE Front([states EXCEPT ![first] = states[Len(states)]])

removeInstanceStatesFromLoadBalancer(lb, id) ==
    IF \E i \in 1..Len(MapSlice(instanceStates, lb)) :
           MapSlice(instanceStates, lb)[i].InstanceId = id
    THEN MapSet(instanceStates, lb, removeInstanceStates(instanceStates[lb], id))
    ELSE instanceStates

RECURSIVE RemoveAll(_, _, _)
\* removeInstanceFromLB for ids[1], ..., ids[k], in turn
RemoveAll(lbInstances, ids, k) ==
    IF k = 0 THEN lbInstances
    ELSE removeInstanceFromLB(RemoveAll(lbInstances, ids, k - 1), ids[k])

deregisterInstancesFromLoadBalancer(form, rid) ==
    LET lbName == form.LoadBalancerName
        n == ProbeFrom(form.Instances, 1)
        instIds == SubSeq(form.Instances, 1, n)
        instId == Member(form.Instances, n + 1)
        bad == FirstUnknown(instIds)
    IN  IF validate(form, <<"LoadBalancerName">>) # NoError
        THEN {Fail(validate(form, <<"LoadBalancerName">>))}
        ELSE IF lbExists(lbName) # NoError
        THEN {Fail(lbExists(lbName))}
        ELSE IF bad # 0
        THEN \* lb points into the store: the ids before the unknown one are gone
             {[kind |-> "error", err |-> instanceExists(instIds[bad]), body |-> <<>>,
               lbs |-> [lbs EXCEPT ![lbName].Instances = RemoveAll(@, instIds, bad - 1)],
               instanceStates |-> instanceStates, lbTags |-> lbTags]}
        ELSE {Return([RequestId |-> rid],
                     [lbs EXCEPT ![lbName].Instances = RemoveAll(@, instIds, n)],
                     removeInstanceStatesFromLoadBalancer(lbName, instId),
                     lbTags)}

describeInstanceHealth(form, rid) ==
    LET lbName == form.LoadBalancerName
        n == ProbeFrom(form.Instances, 1)
        instIds == SubSeq(form.Instances, 1, n)
    IN  IF lbExists(lbName) # NoError
        THEN {Fail(lbExists(lbName))}
        ELSE IF FirstUnknown(instIds) # 0
        THEN {Fail(instanceExists(instIds[FirstUnknown(instIds)]))}
        ELSE {Return([InstanceStates |->
                         MapSlice(instanceStates, lbName)
                             \o [i \in 1..n |-> makeInstanceState(instIds[i])]],
                     lbs, instanceStates, lbTags)}

----------------------------------------------------------------------------
(* The health check.  A target is the sequence of its characters. *)

Digits == {"0", "1", "2", "3", "4", "5", "6", "7", "8", "9"}

Letters == {"a", "b", "c", "d", "e", "f", "g", "h", "i", "j", "k", "l", "m",
            "n", "o", "p", "q", "r", "s", "t", "u", "v", "w", "x", "y", "z",
            "A", "B", "C", "D", "E", "F", "G", "H", "I", "J", "K", "L", "M",
            "N", "O", "P", "Q", "R", "S", "T", "U", "V", "W", "X", "Y", "Z"}

\* the class \w
WordChars == Letters \cup Digits \cup {"_"}

\* regexp `TCP:[\d]+` finds a match somewhere in target
tcpReg(target) ==
    \E i \in 1..Len(target) :
        /\ i + 4 <= Len(target)
        /\ SubSeq(target, i, i + 3) = <<"T", "C", "P", ":">>
        /\ target[i + 4] \in Digits

\* regexp `[\w]+:[\d]+\/+` finds a match somewhere in target
pathReg(target) ==
    \E c \in 2..Len(target) : \E e \in (c + 2)..Len(target) :
        /\ target[c] = ":"
        /\ target[c - 1] \in WordChars
        /\ \A i \in (c + 1)..(e - 1) : target[i] \in Digits
        /\ target[e] = "/"

configureHealthCheck(form, rid) ==
    LET required == <<"LoadBalancerName", "HealthCheck.HealthyThreshold",
                      "HealthCheck.Interval", "HealthCheck.Target",
                      "HealthCheck.Timeout", "HealthCheck.UnhealthyThreshold">>
        target == form.HealthCheck.Target
        healthCheck == [HealthyThreshold |-> Atoi(form.HealthCheck.HealthyThreshold),
                        Interval |-> Atoi(form.HealthCheck.Interval),
                        Target |-> target,
                        Timeout |-> Atoi(form.HealthCheck.Timeout),
                        UnhealthyThreshold |-> Atoi(form.HealthCheck.UnhealthyThreshold)]
    IN  IF validate(form, required) # NoError
        THEN {Fail(validate(form, required))}
        ELSE IF ~tcpReg(target) /\ ~pathReg(target)
        THEN {Fail(ElbError("ValidationError",
                 "HealthCheck HTTP Target must specify a port followed by a path that begins with a slash. e.g. HTTP:80/ping/this/path"))}
        ELSE IF form.LoadBalancerName \notin DOMAIN lbs
        THEN \* srv.lbs[name] is nil: the write of .HealthCheck panics
             {Panic(lbs, instanceStates, lbTags)}
        ELSE {Return([Check |-> healthCheck],
                     [lbs EXCEPT ![form.LoadBalancerName].HealthCheck = healthCheck],
                     instanceStates, lbTags)}

----------------------------------------------------------------------------
(* Tags. *)

addTags(form, rid) ==
    LET lbName == Member(form.LoadBalancerNames, 1)
        n == ProbeFrom([i \in 1..Len(form.Tags) |-> form.Tags[i].Key], 1)
        tags == SubSeq(form.Tags, 1, n)
    IN  {Return([RequestId |-> "fake-req-id"], lbs, instanceStates,
                IF DOMAIN lbTags = {} THEN MapSet(lbTags, lbName, tags)
                ELSE MapSet(lbTags, lbName, MapSlice(lbTags, lbName) \o tags))}

describeTags(form, rid) ==
    LET lbName == Member(form.LoadBalancerNames, 1)
    IN  {Return([RequestId |-> "fake-req-id", NextToken |-> "who knows!",
                 LoadBalancerTags |-> <<[Tags |-> MapSlice(lbTags, lbName),
                                         LoadBalancerName |-> lbName]>>],
                lbs, instanceStates, lbTags)}

----------------------------------------------------------------------------
(* The dispatcher of the load balancer API. *)

Handlers == {"CreateLoadBalancer", "DeleteLoadBalancer",
             "RegisterInstancesWithLoadBalancer",
             "DeregisterInstancesFromLoadBalancer", "DescribeLoadBalancers",
             "DescribeInstanceHealth", "ConfigureHealthCheck", "AddTags",
             "DescribeTags", "CreateLoadBalancerListeners",
             "DeleteLoadBalancerListeners",
             "SetLoadBalancerListenerSSLCertificate"}

\* actions[name](srv, w, req, reqId)
actions(name, form, rid) ==
    CASE name = "CreateLoadBalancer" -> createLoadBalancer(form, rid)
      [] name = "DeleteLoadBalancer" -> deleteLoadBalancer(form, rid)
      [] name = "RegisterInstancesWithLoadBalancer" ->
             registerInstancesWithLoadBalancer(form, rid)
      [] name = "DeregisterInstancesFromLoadBalancer" ->
             deregisterInstancesFromLoadBalancer(form, rid)
      [] name = "DescribeLoadBalancers" -> describeLoadBalancers(form, rid)
      [] name = "DescribeInstanceHealth" -> describeInstanceHealth(form, rid)
      [] name = "ConfigureHealthCheck" -> configureHealthCheck(form, rid)
      [] name = "AddTags" -> addTags(form, rid)
      [] name = "DescribeTags" -> describeTags(form, rid)
      [] name = "CreateLoadBalancerListeners" -> createLoadBalancerListeners(form, rid)
      [] name = "DeleteLoadBalancerListeners" -> deleteLoadBalancerListeners(form, rid)
      [] name = "SetLoadBalancerListenerSSLCertificate" ->
             setLoadBalancerListenerSSLCertificate(form, rid)

NoResp == [kind |-> "none", StatusCode |-> 0, Code |-> "", Message |-> "", body |-> <<>>]

\* srv.error(w, err)
ErrorResponse(e) ==
    [kind |-> "error", StatusCode |-> e.StatusCode, Code |-> e.Code,
     Message |-> e.Message, body |-> <<>>]

\* what the dispatcher writes for a handler's outcome
Response(out) ==
    IF out.kind = "error" THEN ErrorResponse(out.err)
    ELSE IF out.kind = "ok"
    THEN [kind |-> "ok", StatusCode |-> 200, Code |-> "", Message |-> "",
          body |-> out.body]
    ELSE [kind |-> "panic", StatusCode |-> 0, Code |-> "", Message |-> "",
          body |-> <<>>]

ListenerActions == {"CreateLoadBalancerListeners", "DeleteLoadBalancerListeners",
                    "SetLoadBalancerListenerSSLCertificate"}

\* the history of the load balancers the API created: the request of the
\* latest successful CreateLoadBalancer for a name, and whether no listener
\* request has succeeded on it since
Remember(form, out) ==
    IF out.kind # "ok" THEN created
    ELSE IF form.Action = "CreateLoadBalancer"
    THEN MapSet(created, form.LoadBalancerName, [form |-> form, listenersKept |-> TRUE])
    ELSE IF form.Action = "DeleteLoadBalancer"
    THEN MapDelete(created, form.LoadBalancerName)
    ELSE IF form.Action \in ListenerActions /\ form.LoadBalancerName \in DOMAIN created
    THEN [created EXCEPT ![form.LoadBalancerName].listenersKept = FALSE]
    ELSE created

serveHTTP_countsUnknown(form) ==
    /\ req = NoReq
    /\ req' = form
    /\ reqId < MaxReqId
    /\ reqId' = reqId + 1
    /\ IF form.Action \notin Handlers
       THEN /\ resp' = ErrorResponse(ElbError("InvalidParameterValue",
                                              "Unrecognized Action"))
            /\ UNCHANGED <<lbs, instanceStates, lbTags, created>>
       ELSE \E out \in actions(form.Action, form, FormatReqId(reqId)) :
                  /\ lbs' = out.lbs
                  /\ instanceStates' = out.instanceStates
                  /\ lbTags' = out.lbTags
                  /\ resp' = Response(out)
                  /\ created' = Remember(form, out)
    /\ UNCHANGED <<instances, instCount, r53Vars, connVars>>

\* one request to the ELB server, from Lock to the deferred Unlock
serveHTTP(form) ==
    /\ req = NoReq
    /\ req' = form
    /\ IF form.Action \notin Handlers
       THEN /\ resp' = ErrorResponse(ElbError("InvalidParameterValue",
                                              "Unrecognized Action"))
            /\ UNCHANGED <<elbVars, created>>
       ELSE /\ reqId < MaxReqId
            /\ reqId' = reqId + 1
            /\ \E out \in actions(form.Action, form, FormatReqId(reqId)) :
                  /\ lbs' = out.lbs
                  /\ instanceStates' = out.instanceStates
                  /\ lbTags' = out.lbTags
                  /\ resp' = Response(out)
                  /\ created' = Remember(form, out)
            /\ UNCHANGED <<instances, instCount>>
    /\ UNCHANGED <<r53Vars, connVars>>

\* the client has read the response
Done ==
    /\ req # NoReq
    /\ req' = NoReq
    /\ resp' = NoResp
    /\ UNCHANGED <<elbVars, r53Vars, created, connVars>>

----------------------------------------------------------------------------
(* The fake Route53 server. A request is its method, the segments of
   strings.Split(req.URL.Path, "/"), whether its body decodes as a change
   request, and the changes of the body. A record set is its name and type. *)

DNSRequest(method, path, decodes, changes) ==
    [Method |-> method, Path |-> path, Decodes |-> decodes, Changes |-> changes]

\* &Error{StatusCode: 400, Code: code, Message: message}
Route53Error(code, message) ==
    [StatusCode |-> 400, Code |-> code, Message |-> message]

\* for i, record := range srv.records { if record.Name == name {
\*     srv.records = append(srv.records[:i], srv.records[i+1:]...) } }
\* range walks the n elements of the array srv.records had when the loop
\* began; append moves the tail down inside that array and shortens
\* srv.records to len, leaving the elements past len as they were;
\* srv.records[i+1:] panics once i+1 is past len. i counts from 1 here.
RECURSIVE deleteRecords(_, _, _, _)
deleteRecords(array, len, i, name) ==
    IF i > Len(array)
    THEN [records |-> SubSeq(array, 1, len), panicked |-> FALSE]
    ELSE IF array[i].Name # name
    THEN deleteRecords(array, len, i + 1, name)
    ELSE IF i > len
    THEN [records |-> SubSeq(array, 1, len), panicked |-> TRUE]
    ELSE deleteRecords([k \in 1..Len(array) |->
                           IF k >= i /\ k < len THEN array[k + 1] ELSE array[k]],
                       len - 1, i + 1, name)

applyChange_noDelete(recs, change) ==
    IF change.Action = "CREATE"
    THEN [records |-> Append(recs, change.Record), panicked |-> FALSE]
    ELSE [records |-> recs, panicked |-> FALSE]

\* switch change.Action
applyChange(recs, change) ==
    IF change.Action = "CREATE"
    THEN [records |-> Append(recs, change.Record), panicked |-> FALSE]
    ELSE IF change.Action = "DELETE"
    THEN deleteRecords(recs, Len(recs), 1, change.Record.Name)
    ELSE [records |-> recs, panicked |-> FALSE]

\* for _, change := range changeRequest.Changes
RECURSIVE applyChanges(_, _)
applyChanges(recs, changes) ==
    IF changes = <<>>
    THEN [records |-> recs, panicked |-> FALSE]
    ELSE LET first == applyChange(recs, Head(changes))
         IN  IF first.panicked THEN first
             ELSE applyChanges(first.records, Tail(changes))

\* the outcome of a Route53 handler: as Return, Fail and Panic, on the records
listResourceRecordSets(request, rid) ==
    [kind |-> "ok", body |-> records, records |-> records]

\* a body that does not decode gives an error that is no *Error, and the
\* dispatcher panics on it; SubmittedAt, the time of the answer, is left out
changeResourceRecordSets(request, rid) ==
    IF ~request.Decodes
    THEN [kind |-> "panic", body |-> <<>>, records |-> records]
    ELSE LET done == applyChanges(records, request.Changes)
         IN  IF done.panicked
             THEN [kind |-> "panic", body |-> <<>>, records |-> done.records]
             ELSE [kind |-> "ok",
                   body |-> [ID |-> "some-id", Status |-> "some-status"],
                   records |-> done.records]

\* var actions = map[string]actionMethods{"rrset": {"GET", "POST"}}
route53Actions == [rrset |-> {"GET", "POST"}]

Routed(request) ==
    /\ Len(request.Path) >= 5
    /\ request.Path[5] \in DOMAIN route53Actions
    /\ request.Method \in route53Actions[request.Path[5]]

NoTrip == [phase |-> 0, name |-> ""]

\* the round trip the requests are in, after request is answered: a batch of
\* one CREATE on an empty list, a list, a batch of one DELETE for the same
\* name, a list
Trip(request) ==
    IF ~Routed(request) THEN NoTrip
    ELSE IF request.Method = "GET"
    THEN IF trip.phase \in {1, 3} THEN [trip EXCEPT !.phase = @ + 1] ELSE NoTrip
    ELSE IF ~request.Decodes \/ Len(request.Changes) # 1 THEN NoTrip
    ELSE LET change == request.Changes[1]
         IN  IF change.Action = "CREATE" /\ records = <<>>
             THEN [phase |-> 1, name |-> change.Record.Name]
             ELSE IF /\ change.Action = "DELETE"
                     /\ trip.phase = 2
                     /\ change.Record.Name = trip.name
             THEN [trip EXCEPT !.phase = 3]
             ELSE NoTrip

\* route53test.Server.serveHTTP: strings.Split(req.URL.Path, "/")[4] panics
\* on a path of fewer than five segments
route53ServeHTTP(request) ==
    /\ req = NoReq
    /\ req' = request
    /\ trip' = Trip(request)
    /\ IF Len(request.Path) < 5
       THEN /\ resp' = Response([kind |-> "panic"])
            /\ UNCHANGED <<r53ReqId, records>>
       ELSE IF ~Routed(request)
       THEN /\ resp' = ErrorResponse(Route53Error("InvalidParameterValue",
                                                  "Unrecognized Action"))
            /\ UNCHANGED <<r53ReqId, records>>
       ELSE /\ r53ReqId < MaxR53ReqId
            /\ r53ReqId' = r53ReqId + 1
            /\ LET out == IF request.Method = "GET"
                          THEN listResourceRecordSets(request, FormatReqId(r53ReqId))
                          ELSE changeResourceRecordSets(request, FormatReqId(r53ReqId))
               IN  /\ records' = out.records
                   /\ resp' = Response(out)
    /\ UNCHANGED <<elbVars, created, connVars>>

----------------------------------------------------------------------------
(* The servers under concurrent connections.  http.Serve runs serveHTTP in  *)
(* a goroutine of its own for every connection; a goroutine is idle (no     *)
(* request), arrived (request parsed, before Lock), locked (after Lock),    *)
(* dispatched (the handler is looked up and reqId is formatted), running    *)
(* (the handler has made its first write to the store) or returned (the     *)
(* response is written, the deferred Unlock is still to run).               *)

Clients == 1..MaxClients

Idle == [pc |-> "idle", request |-> NoReq, reqId |-> "", resp |-> NoResp,
         out |-> [kind |-> "none"], expected |-> {}]

IsDNS(request) == "Method" \in DOMAIN request

\* what serveHTTP of the ELB server does with the request when nothing else
\* runs between its Lock and its Unlock: the store it leaves and the response
SerialELB(form) ==
    IF form.Action \notin Handlers
    THEN {[store |-> <<lbs, instanceStates, lbTags, reqId>>,
           resp |-> ErrorResponse(ElbError("InvalidParameterValue",
                                           "Unrecognized Action"))]}
    ELSE {[store |-> <<out.lbs, out.instanceStates, out.lbTags, reqId + 1>>,
           resp |-> Response(out)] :
             out \in actions(form.Action, form, FormatReqId(reqId))}

\* the same of the Route53 server
SerialDNS(request) ==
    IF Len(request.Path) < 5
    THEN {[store |-> <<records, r53ReqId>>, resp |-> Response([kind |-> "panic"])]}
    ELSE IF ~Routed(request)
    THEN {[store |-> <<records, r53ReqId>>,
           resp |-> ErrorResponse(Route53Error("InvalidParameterValue",
                                               "Unrecognized Action"))]}
    ELSE LET out == IF request.Method = "GET"
                    THEN listResourceRecordSets(request, FormatReqId(r53ReqId))
                    ELSE changeResourceRecordSets(request, FormatReqId(r53ReqId))
         IN  {[store |-> <<out.records, r53ReqId + 1>>, resp |-> Response(out)]}

\* the requests that will take a request id of the server: in flight, not yet
\* given one
Pending(dns) ==
    {c \in Clients :
        /\ conns[c].pc \in {"arrived", "locked", "dispatched"}
        /\ IsDNS(conns[c].request) = dns
        /\ IF dns THEN Routed(conns[c].request)
           ELSE conns[c].request.Action \in Handlers}

\* http.Serve accepts a connection and starts serveHTTP; req.ParseForm()
Arrive(c, request) ==
    /\ conns[c].pc = "idle"
    /\ IF IsDNS(request)
       THEN Routed(request) => r53ReqId + Cardinality(Pending(TRUE)) < MaxR53ReqId
       ELSE request.Action \in Handlers
               => reqId + Cardinality(Pending(FALSE)) < MaxReqId
    /\ conns' = [conns EXCEPT ![c] = [Idle EXCEPT !.pc = "arrived",
                                                  !.request = request]]
    /\ UNCHANGED <<elbVars, r53Vars, req, resp, created, mutex, r53Mutex, handed>>

TryLock_always(m) == TRUE

\* sync.Mutex.Lock returns once the mutex is unlocked
TryLock(m) == m = 0

\* srv.mutex.Lock()
Lock(c) ==
    /\ conns[c].pc = "arrived"
    /\ ~IsDNS(conns[c].request)
    /\ TryLock(mutex)
    /\ mutex' = c
    /\ conns' = [conns EXCEPT ![c].pc = "locked",
                              ![c].expected = SerialELB(conns[c].request)]
    /\ UNCHANGED <<elbVars, r53Vars, req, resp, created, r53Mutex, handed>>

\* the store variables the handler of the action writes first
WritesStatesFirst(action) == action = "RegisterInstancesWithLoadBalancer"

\* f := actions[req.Form.Get("Action")]; reqId := fmt.Sprintf("req%0X", srv.reqId)
Dispatch(c) ==
    LET form == conns[c].request
    IN  /\ conns[c].pc = "locked"
        /\ ~IsDNS(form)
        /\ IF form.Action \notin Handlers
           THEN /\ conns' = [conns EXCEPT
                               ![c].pc = "returned",
                               ![c].resp = ErrorResponse(
                                   ElbError("InvalidParameterValue",
                                            "Unrecognized Action"))]
                /\ UNCHANGED handed
           ELSE /\ conns' = [conns EXCEPT ![c].pc = "dispatched",
                                          ![c].reqId = FormatReqId(reqId)]
                /\ handed' = [handed EXCEPT !.elb = Append(@, FormatReqId(reqId))]
        /\ UNCHANGED <<elbVars, r53Vars, req, resp, created, mutex, r53Mutex>>

\* srv.reqId++, and the handler to its first write to the store
BeginHandler(c) ==
    LET form == conns[c].request
    IN  /\ conns[c].pc = "dispatched"
        /\ ~IsDNS(form)
        /\ reqId' = reqId + 1
        /\ \E out \in actions(form.Action, form, conns[c].reqId) :
              /\ conns' = [conns EXCEPT ![c].pc = "running", ![c].out = out]
              /\ IF WritesStatesFirst(form.Action)
                 THEN /\ instanceStates' = out.instanceStates
                      /\ UNCHANGED <<lbs, lbTags>>
                 ELSE /\ lbs' = out.lbs
                      /\ UNCHANGED <<instanceStates, lbTags>>
        /\ UNCHANGED <<instances, instCount, r53Vars, req, resp, created,
                       mutex, r53Mutex, handed>>

\* the rest of the handler, and the response
EndHandler(c) ==
    /\ conns[c].pc = "running"
    /\ ~IsDNS(conns[c].request)
    /\ lbs' = conns[c].out.lbs
    /\ instanceStates' = conns[c].out.instanceStates
    /\ lbTags' = conns[c].out.lbTags
    /\ conns' = [conns EXCEPT ![c].pc = "returned",
                              ![c].resp = Response(conns[c].out)]
    /\ UNCHANGED <<reqId, instances, instCount, r53Vars, req, resp, created,
                   mutex, r53Mutex, handed>>

Unlock_notDeferred(c) ==
    /\ conns[c].pc = "returned"
    /\ ~IsDNS(conns[c].request)
    /\ conns[c].resp.kind # "panic"
    /\ mutex' = 0
    /\ conns' = [conns EXCEPT ![c] = Idle]
    /\ UNCHANGED <<elbVars, r53Vars, req, resp, created, r53Mutex, handed>>

\* defer srv.mutex.Unlock()
Unlock(c) ==
    /\ conns[c].pc = "returned"
    /\ ~IsDNS(conns[c].request)
    /\ mutex' = 0
    /\ conns' = [conns EXCEPT ![c] = Idle]
    /\ UNCHANGED <<elbVars, r53Vars, req, resp, created, r53Mutex, handed>>

\* srv.mutex.Lock() of the Route53 server
Route53Lock(c) ==
    /\ conns[c].pc = "arrived"
    /\ IsDNS(conns[c].request)
    /\ TryLock(r53Mutex)
    /\ r53Mutex' = c
    /\ conns' = [conns EXCEPT ![c].pc = "locked",
                              ![c].expected = SerialDNS(conns[c].request)]
    /\ UNCHANGED <<elbVars, r53Vars, req, resp, created, mutex, handed>>

\* resource := strings.Split(req.URL.Path, "/")[4]; f := actions[resource][method];
\* reqId := fmt.Sprintf("req%0X", srv.reqId)
Route53Dispatch(c) ==
    LET request == conns[c].request
    IN  /\ conns[c].pc = "locked"
        /\ IsDNS(request)
        /\ IF Len(request.Path) < 5
           THEN /\ conns' = [conns EXCEPT ![c].pc = "returned",
                                          ![c].resp = Response([kind |-> "panic"])]
                /\ UNCHANGED handed
           ELSE IF ~Routed(request)
           THEN /\ conns' = [conns EXCEPT
                               ![c].pc = "returned",
                               ![c].resp = ErrorResponse(
                                   Route53Error("InvalidParameterValue",
                                                "Unrecognized Action"))]
                /\ UNCHANGED handed
           ELSE /\ conns' = [conns EXCEPT ![c].pc = "dispatched",
                                          ![c].reqId = FormatReqId(r53ReqId)]
                /\ handed' = [handed EXCEPT !.r53 = Append(@, FormatReqId(r53ReqId))]
        /\ UNCHANGED <<elbVars, r53Vars, req, resp, created, mutex, r53Mutex>>

\* srv.reqId++, and the handler to the first change of the batch, applied
Route53BeginHandler(c) ==
    LET request == conns[c].request
        first == applyChange(records, Head(request.Changes))
    IN  /\ conns[c].pc = "dispatched"
        /\ IsDNS(request)
        /\ r53ReqId' = r53ReqId + 1
        /\ IF request.Method = "GET" \/ ~request.Decodes \/ request.Changes = <<>>
           THEN /\ conns' = [conns EXCEPT
                               ![c].pc = "running",
                               ![c].out = [panicked |-> FALSE, rest |-> <<>>]]
                /\ UNCHANGED records
           ELSE /\ conns' = [conns EXCEPT
                               ![c].pc = "running",
                               ![c].out = [panicked |-> first.panicked,
                                           rest |-> Tail(request.Changes)]]
                /\ records' = first.records
        /\ UNCHANGED <<elbVars, trip, req, resp, created, mutex, r53Mutex, handed>>

\* the rest of the batch, and the response
Route53EndHandler(c) ==
    LET request == conns[c].request
        done == IF conns[c].out.panicked
                THEN [records |-> records, panicked |-> TRUE]
                ELSE applyChanges(records, conns[c].out.rest)
    IN  /\ conns[c].pc = "running"
        /\ IsDNS(request)
        /\ records' = done.records
        /\ conns' = [conns EXCEPT
                        ![c].pc = "returned",
                        ![c].resp =
                            IF request.Method = "GET"
                            THEN Response(listResourceRecordSets(request, ""))
                            ELSE IF ~request.Decodes \/ done.panicked
                            THEN Response([kind |-> "panic"])
                            ELSE Response([kind |-> "ok",
                                           body |-> [ID |-> "some-id",
                                                     Status |-> "some-status"]])]
        /\ UNCHANGED <<elbVars, r53ReqId, trip, req, resp, created,
                       mutex, r53Mutex, handed>>

\* defer srv.mutex.Unlock() of the Route53 server
Route53Unlock(c) ==
    /\ conns[c].pc = "returned"
    /\ IsDNS(conns[c].request)
    /\ r53Mutex' = 0
    /\ conns' = [conns EXCEPT ![c] = Idle]
    /\ UNCHANGED <<elbVars, r53Vars, req, resp, created, mutex, handed>>

----------------------------------------------------------------------------
(* The test-control API of the ELB server: plain method calls. *)

NewInstance ==
    /\ req = NoReq
    /\ instCount < MaxInstCount
    /\ instCount' = instCount + 1
    /\ instances' = Append(instances, "i-" \o Itoa(instCount + 1))
    /\ UNCHANGED <<reqId, lbs, instanceStates, lbTags, r53Vars, connVars, req, resp, created>>

RemoveInstance(instId) ==
    /\ req = NoReq
    /\ instances' =
          IF \E i \in 1..Len(instances) : instances[i] = instId
          THEN LET i == CHOOSE k \in 1..Len(instances) : instances[k] = instId
               IN  Front([instances EXCEPT ![i] = instances[Len(instances)]])
          ELSE instances
    /\ UNCHANGED <<reqId, lbs, instanceStates, instCount, lbTags, r53Vars, connVars, req, resp, created>>

NewLoadBalancer(name) ==
    /\ req = NoReq
    /\ lbs' = MapSet(lbs, name,
                     [ZeroLoadBalancer EXCEPT
                         !.LoadBalancerName = name,
                         !.DNSName = name \o "-some-aws-stuff.sa-east-1.amazonaws.com"])
    /\ created' = MapDelete(created, name)
    /\ UNCHANGED <<reqId, instances, instanceStates, instCount, lbTags, r53Vars, connVars, req, resp>>

RemoveLoadBalancer(name) ==
    /\ req = NoReq
    /\ lbs' = MapDelete(lbs, name)
    /\ created' = MapDelete(created, name)
    /\ UNCHANGED <<reqId, instances, instanceStates, instCount, lbTags, r53Vars, connVars, req, resp>>

RegisterInstance(instId, lbName) ==
    /\ req = NoReq
    /\ lbName \in DOMAIN lbs => Len(lbs[lbName].Instances) < MaxRegistered
    /\ Len(MapSlice(instanceStates, lbName)) < MaxRegistered
    /\ IF lbName \notin DOMAIN lbs
       THEN UNCHANGED <<lbs, instanceStates>>
       ELSE /\ lbs' = [lbs EXCEPT ![lbName].Instances =
                                      Append(@, [InstanceId |-> instId])]
            /\ instanceStates' =
                  MapSet(instanceStates, lbName,
                         Append(MapSlice(instanceStates, lbName),
                                makeInstanceState(instId)))
    /\ UNCHANGED <<reqId, instances, instCount, lbTags, r53Vars, connVars, req, resp, created>>

\* on a load balancer that is not stored srv.lbs[lbName] is nil and
\* removeInstanceFromLB panics in the caller, before anything is written
DeregisterInstance(instId, lbName) ==
    /\ req = NoReq
    /\ lbName \in DOMAIN lbs
    /\ lbs' = [lbs EXCEPT ![lbName].Instances = removeInstanceFromLB(@, instId)]
    /\ instanceStates' = removeInstanceStatesFromLoadBalancer(lbName, instId)
    /\ UNCHANGED <<reqId, instances, instCount, lbTags, r53Vars, connVars, req, resp, created>>

ChangeInstanceState(lb, state) ==
    /\ req = NoReq
    /\ LET states == MapSlice(instanceStates, lb)
           hits == {i \in 1..Len(states) : states[i].InstanceId = state.InstanceId}
       IN  instanceStates' =
              IF hits = {} THEN instanceStates
              ELSE [instanceStates EXCEPT
                       ![lb][CHOOSE i \in hits : \A j \in hits : i <= j] = state]
    /\ UNCHANGED <<reqId, lbs, instances, instCount, lbTags, r53Vars, connVars, req, resp, created>>

----------------------------------------------------------------------------
(* The state after NewServer, of both servers. *)

Init ==
    /\ reqId = 0
    /\ lbs = EmptyMap
    /\ instances = <<>>
    /\ instanceStates = EmptyMap
    /\ instCount = 0
    /\ lbTags = EmptyMap
    /\ r53ReqId = 0
    /\ records = <<>>
    /\ req = NoReq
    /\ resp = NoResp
    /\ created = EmptyMap
    /\ trip = NoTrip
    /\ mutex = 0
    /\ r53Mutex = 0
    /\ conns = [c \in Clients |-> Idle]
    /\ handed = [elb |-> <<>>, r53 |-> <<>>]

----------------------------------------------------------------------------
(* Requests of the life cycle of load balancers. *)

LBNames == {"lb-1", "lb-2"}

Ports == {"80", "443"}

\* a listener with every field
FullListenerParam(lbport) ==
    [Protocol |-> "https", InstanceProtocol |-> "http", InstancePort |-> "8080",
     LoadBalancerPort |-> lbport, SSLCertificateId |-> ""]

\* Listeners.member.1 with any of the four required fields missing
FirstListenerParams ==
    {[Protocol |-> p, InstanceProtocol |-> ip, InstancePort |-> port,
      LoadBalancerPort |-> lbport, SSLCertificateId |-> ""] :
        p \in {"", "https"}, ip \in {"", "http"}, port \in {"", "8080"},
        lbport \in {"", "80"}}

CreateForm(n, az, sn, sch, ls) ==
    [EmptyForm EXCEPT !.Action = "CreateLoadBalancer", !.LoadBalancerName = n,
                      !.AvailabilityZones = az, !.Subnets = sn, !.Scheme = sch,
                      !.Listeners = ls]

\* requests that have what CreateLoadBalancer asks for
GoodCreateForms ==
    {CreateForm(n, az, <<>>, sch, ls) :
        n \in LBNames, az \in {<<"us-east-1a">>}, sch \in {"", "internal"},
        ls \in {<<FullListenerParam("80")>>,
                <<FullListenerParam("80"), FullListenerParam("443")>>,
                <<FullListenerParam("443"), FullListenerParam("80")>>}}
    \cup {CreateForm(n, <<>>, <<"subnet-1">>, "", <<FullListenerParam("80")>>) :
            n \in LBNames}

\* requests that lack required fields, with and without a zone
MissingFieldForms ==
    {CreateForm(n, az, <<>>, "", <<l>>) :
        n \in {"", "lb-1"}, az \in {<<>>, <<"us-east-1a">>}, l \in FirstListenerParams}

\* requests with both a zone and a subnet
BothForms ==
    {CreateForm("lb-1", <<"us-east-1a">>, <<"subnet-1">>, "", <<l>>) :
        l \in {FullListenerParam("80"),
               [FullListenerParam("80") EXCEPT !.Protocol = ""]}}

CreateForms == GoodCreateForms \cup MissingFieldForms \cup BothForms

DeleteForms ==
    {[EmptyForm EXCEPT !.Action = "DeleteLoadBalancer", !.LoadBalancerName = n] :
        n \in LBNames \cup {""}}

DescribeForms ==
    {[EmptyForm EXCEPT !.Action = "DescribeLoadBalancers", !.LoadBalancerNames = ns] :
        ns \in {<<>>} \cup {<<n>> : n \in LBNames}}

CreateListenersForm(n, ls) ==
    [EmptyForm EXCEPT !.Action = "CreateLoadBalancerListeners",
                      !.LoadBalancerName = n, !.Listeners = ls]

DeleteListenersForm(n, ps) ==
    [EmptyForm EXCEPT !.Action = "DeleteLoadBalancerListeners",
                      !.LoadBalancerName = n, !.LoadBalancerPorts = ps]

SetCertificateForm(n, port, cert) ==
    [EmptyForm EXCEPT !.Action = "SetLoadBalancerListenerSSLCertificate",
                      !.LoadBalancerName = n, !.LoadBalancerPort = port,
                      !.SSLCertificateId = cert]

\* the listener requests of the life cycle: one of each kind
FewListenerForms ==
    {CreateListenersForm("lb-1", <<FullListenerParam("443")>>),
     DeleteListenersForm("lb-1", <<"80">>),
     SetCertificateForm("lb-1", "80", "cert-1")}

UnknownForms == {[EmptyForm EXCEPT !.Action = "DescribeLoadBalancerPolicies"]}

\* the requests, by the handler that answers them
CreateLoadBalancer(forms) ==
    \E form \in forms : form.Action = "CreateLoadBalancer" /\ serveHTTP(form)

DeleteLoadBalancer(forms) ==
    \E form \in forms : form.Action = "DeleteLoadBalancer" /\ serveHTTP(form)

DescribeLoadBalancers(forms) ==
    \E form \in forms : form.Action = "DescribeLoadBalancers" /\ serveHTTP(form)

CreateLoadBalancerListeners(forms) ==
    \E form \in forms : form.Action = "CreateLoadBalancerListeners" /\ serveHTTP(form)

DeleteLoadBalancerListeners(forms) ==
    \E form \in forms : form.Action = "DeleteLoadBalancerListeners" /\ serveHTTP(form)

SetLoadBalancerListenerSSLCertificate(forms) ==
    \E form \in forms :
        form.Action = "SetLoadBalancerListenerSSLCertificate" /\ serveHTTP(form)

UnknownAction(forms) ==
    \E form \in forms : form.Action \notin Handlers /\ serveHTTP(form)

Next ==
    \/ CreateLoadBalancer(CreateForms)
    \/ DeleteLoadBalancer(DeleteForms)
    \/ DescribeLoadBalancers(DescribeForms)
    \/ CreateLoadBalancerListeners(FewListenerForms)
    \/ DeleteLoadBalancerListeners(FewListenerForms)
    \/ SetLoadBalancerListenerSSLCertificate(FewListenerForms)
    \/ UnknownAction(UnknownForms)
    \/ \E name \in LBNames : NewLoadBalancer(name)
    \/ \E name \in LBNames : RemoveLoadBalancer(name)
    \/ Done

Spec == Init /\ [][Next]_vars

----------------------------------------------------------------------------
(* Claims C1 to C3: the life cycle of a load balancer, under Spec. *)

RequiredOfCreate ==
    <<"Listeners.member.1.InstancePort", "Listeners.member.1.InstanceProtocol",
      "Listeners.member.1.Protocol", "Listeners.member.1.LoadBalancerPort",
      "LoadBalancerName">>

\* the required fields a CreateLoadBalancer request omits, by position
Omitted(form) ==
    {i \in 1..5 :
        <<ListenerParam(form, 1).InstancePort, ListenerParam(form, 1).InstanceProtocol,
          ListenerParam(form, 1).Protocol, ListenerParam(form, 1).LoadBalancerPort,
          form.LoadBalancerName>>[i] = ""}

FirstOmitted(form) == RequiredOfCreate[CHOOSE i \in Omitted(form) : \A j \in Omitted(form) : i <= j]

HasZone(form) == Member(form.AvailabilityZones, 1) # ""

HasSubnet(form) == Member(form.Subnets, 1) # ""

\* the step answers a CreateLoadBalancer request
AnswersCreate == req = NoReq /\ req'.Action = "CreateLoadBalancer"

\* C1 as claimed: every CreateLoadBalancer request that omits a required field
\* is answered by a ValidationError naming the first omitted field, and the
\* stored load balancers stay as they were.
C1_AsClaimed ==
    [][(AnswersCreate /\ Omitted(req') # {})
          => /\ resp'.Code = "ValidationError"
             /\ resp'.Message = FirstOmitted(req') \o " is required."
             /\ lbs' = lbs]_vars

\* C1, amended: a CreateLoadBalancer request that omits a required field is
\* answered by a ValidationError and the stored load balancers stay as they
\* were; the error names the first omitted field when exactly one of
\* AvailabilityZones.member.1 and Subnets.member.1 is given, and names those
\* two parameters otherwise.
C1_MissingFieldRejected ==
    [][(AnswersCreate /\ Omitted(req') # {})
          => /\ resp'.kind = "error"
             /\ resp'.Code = "ValidationError"
             /\ lbs' = lbs
             /\ (HasZone(req') # HasSubnet(req'))
                   => resp'.Message = FirstOmitted(req') \o " is required."
             /\ (HasZone(req') = HasSubnet(req'))
                   => resp'.Message \in
                         {"Only one of AvailabilityZones.member.1 or Subnets.member.1 may be specified",
                          "Either AvailabilityZones.member.1 or Subnets.member.1 must be specified"}]_vars

\* a request with a zone that gives the instance port but neither protocol
\* was refused, naming the instance protocol, while a load balancer is stored
C1_Witness ==
    /\ req.Action = "CreateLoadBalancer"
    /\ HasZone(req) /\ ~HasSubnet(req)
    /\ Omitted(req) = {2, 3}
    /\ resp.Code = "ValidationError"
    /\ resp.Message = "Listeners.member.1.InstanceProtocol is required."
    /\ DOMAIN lbs # {}

\* C2: a CreateLoadBalancer request that gives both AvailabilityZones.member.1
\* and Subnets.member.1, or neither, is answered by a ValidationError and the
\* stored load balancers stay as they were; a request that stores a load
\* balancer gives exactly one of the two.
C2_CompositionRejected ==
    [][AnswersCreate
          => /\ (HasZone(req') = HasSubnet(req'))
                   => /\ resp'.kind = "error"
                      /\ resp'.Code = "ValidationError"
                      /\ lbs' = lbs
             /\ (resp'.kind = "ok" \/ lbs' # lbs)
                   => (HasZone(req') # HasSubnet(req'))]_vars

\* a request with every required field and both a zone and a subnet was
\* refused while a load balancer is stored
C2_Witness ==
    /\ req.Action = "CreateLoadBalancer"
    /\ HasZone(req) /\ HasSubnet(req)
    /\ Omitted(req) = {}
    /\ resp.Code = "ValidationError"
    /\ DOMAIN lbs # {}

RECURSIVE GivenCount(_, _)
\* how many listeners a create request gives at consecutive indices from i
GivenCount(form, i) ==
    IF i > Len(form.Listeners) \/ form.Listeners[i].Protocol = "" THEN 0
    ELSE 1 + GivenCount(form, i + 1)

\* the listeners a create request gives, in index order
GivenListeners(form) ==
    [i \in 1..GivenCount(form, 1) |->
        [Protocol |-> ToUpper(form.Listeners[i].Protocol),
         InstanceProtocol |-> ToUpper(form.Listeners[i].InstanceProtocol),
         SSLCertificateId |-> form.Listeners[i].SSLCertificateId,
         LoadBalancerPort |-> Atoi(form.Listeners[i].LoadBalancerPort),
         InstancePort |-> Atoi(form.Listeners[i].InstancePort)]]

GivenScheme(form) == IF form.Scheme = "" THEN "internet-facing" ELSE form.Scheme

DerivedDNSName(n) == n \o "-some-aws-stuff.us-east-1.elb.amazonaws.com"

\* the response lists a load balancer named n as the request form created it
Describes(r, n, form, withListeners) ==
    /\ r.kind = "ok"
    /\ \E i \in 1..Len(r.body.LoadBalancers) :
          LET lb == r.body.LoadBalancers[i]
          IN  /\ lb.LoadBalancerName = n
              /\ lb.DNSName = DerivedDNSName(n)
              /\ lb.Scheme = GivenScheme(form)
              /\ withListeners => lb.Listeners = GivenListeners(form)

\* C3 as claimed: from a successful CreateLoadBalancer for a name until the
\* name is deleted, every DescribeLoadBalancers response (that is no error)
\* lists a load balancer of that name with the derived DNS name, the listeners
\* of the create request in index order, and the scheme given (internet-facing
\* when none is).
C3_AsClaimed ==
    (req.Action = "DescribeLoadBalancers" /\ resp.kind = "ok")
        => \A n \in DOMAIN created : Describes(resp, n, created[n].form, TRUE)

\* C3, amended: from a successful CreateLoadBalancer for a name until the name
\* is deleted or created anew (by another CreateLoadBalancer or by
\* NewLoadBalancer), every successful DescribeLoadBalancers response lists a
\* load balancer of that name with the derived DNS name and the scheme given
\* (internet-facing when none is); its listeners are those of the create
\* request, in index order, until a listener request succeeds on it.
C3_CreatedIsDescribed ==
    (req.Action = "DescribeLoadBalancers" /\ resp.kind = "ok")
        => \A n \in DOMAIN created :
              Describes(resp, n, created[n].form, created[n].listenersKept)

\* both names were created, lb-1 with two listeners and no scheme, lb-2 as
\* internal, and a DescribeLoadBalancers was answered
C3_Witness ==
    /\ req.Action = "DescribeLoadBalancers"
    /\ resp.kind = "ok"
    /\ DOMAIN created = {"lb-1", "lb-2"}
    /\ created["lb-1"].listenersKept
    /\ Len(created["lb-1"].form.Listeners) = 2
    /\ created["lb-1"].form.Scheme = ""
    /\ created["lb-2"].form.Scheme = "internal"

----------------------------------------------------------------------------
(* Requests on the listeners of load balancers. *)

FullListenerLists ==
    {<<FullListenerParam(a)>> : a \in Ports}
        \cup {<<FullListenerParam(a), FullListenerParam(b)>> : a \in Ports, b \in Ports}

ListenersCreateForms ==
    {CreateForm(n, <<"us-east-1a">>, <<>>, "", ls) : n \in LBNames, ls \in FullListenerLists}

CreateListenersForms ==
    {CreateListenersForm(n, ls) : n \in LBNames, ls \in {<<>>} \cup FullListenerLists}

\* port lists, "x" being no number
PortLists ==
    {<<>>, <<"80">>, <<"443">>, <<"x">>, <<"80", "443">>, <<"443", "80">>, <<"80", "x">>}

DeleteListenersForms == {DeleteListenersForm(n, ps) : n \in LBNames, ps \in PortLists}

SetCertificateForms == {SetCertificateForm(n, port, "cert-1") : n \in LBNames, port \in Ports}

NextListeners ==
    \/ CreateLoadBalancer(ListenersCreateForms)
    \/ CreateLoadBalancerListeners(CreateListenersForms)
    \/ DeleteLoadBalancerListeners(DeleteListenersForms)
    \/ SetLoadBalancerListenerSSLCertificate(SetCertificateForms)
    \/ \E name \in LBNames : NewLoadBalancer(name)
    \/ Done

SpecListeners == Init /\ [][NextListeners]_vars

----------------------------------------------------------------------------
(* Claims C6 to C8: the listeners, under SpecListeners. *)

\* C6: no stored load balancer has two listeners with the same
\* load-balancer port.
C6_NoTwoListenersOnOnePort ==
    \A n \in DOMAIN lbs :
        \A i \in 1..Len(lbs[n].Listeners) : \A j \in 1..Len(lbs[n].Listeners) :
            i # j => lbs[n].Listeners[i].LoadBalancerPort # lbs[n].Listeners[j].LoadBalancerPort

\* the step answers a request of the given action that names a stored load balancer
AnswersOnStored(action) ==
    /\ req = NoReq
    /\ req'.Action = action
    /\ req'.LoadBalancerName \in DOMAIN lbs

\* the step leaves every load balancer but n as it was, and n but for its listeners
OnlyListenersOf(n) ==
    /\ DOMAIN lbs' = DOMAIN lbs
    /\ \A m \in DOMAIN lbs : m # n => lbs'[m] = lbs[m]
    /\ [lbs'[n] EXCEPT !.Listeners = <<>>] = [lbs[n] EXCEPT !.Listeners = <<>>]

\* C7: a CreateLoadBalancerListeners request on a stored load balancer is
\* answered by the error 400 and changes nothing when a new listener has the
\* port of a stored one; otherwise the listeners afterwards are the stored
\* ones followed by the new ones.
C7_ListenersAppended ==
    [][AnswersOnStored("CreateLoadBalancerListeners")
          => LET n == req'.LoadBalancerName
                 stored == lbs[n].Listeners
                 new == GivenListeners(req')
             IN  IF \E i \in 1..Len(new) : \E j \in 1..Len(stored) :
                        new[i].LoadBalancerPort = stored[j].LoadBalancerPort
                 THEN /\ resp'.kind = "error"
                      /\ resp'.StatusCode = 400
                      /\ resp'.Code = "400"
                      /\ lbs' = lbs
                 ELSE /\ lbs'[n].Listeners = stored \o new
                      /\ OnlyListenersOf(n)]_vars

\* the ports a DeleteLoadBalancerListeners request supplies, as written
SuppliedPorts(form) ==
    {form.LoadBalancerPorts[i] : i \in 1..ProbeFrom(form.LoadBalancerPorts, 1)}

RECURSIVE Without(_, _)
\* the listeners whose port is not among the ports, in their order
Without(listeners, ports) ==
    IF listeners = <<>> THEN <<>>
    ELSE IF Itoa(Head(listeners).LoadBalancerPort) \in ports
    THEN Without(Tail(listeners), ports)
    ELSE <<Head(listeners)>> \o Without(Tail(listeners), ports)

AnswersDeleteListeners == req = NoReq /\ req'.Action = "DeleteLoadBalancerListeners"

----------------------------------------------------------------------------
(* Requests on the instances of a load balancer: lb-1 is stored by         *)
(* NewLoadBalancer, lb-2 never is; i-1 and i-2 are the ids NewInstance     *)
(* gives, i-9 is no instance.                                              *)

InstanceIds == {"i-" \o Itoa(k) : k \in 1..2}

InstanceLists ==
    {<<>>, <<"i-1">>, <<"i-2">>, <<"i-9">>, <<"i-1", "i-2">>, <<"i-1", "i-9">>}

RegisterForms ==
    {[EmptyForm EXCEPT !.Action = "RegisterInstancesWithLoadBalancer",
                       !.LoadBalancerName = n, !.Instances = ids] :
        n \in {"lb-1"}, ids \in InstanceLists}
    \cup {[EmptyForm EXCEPT !.Action = "RegisterInstancesWithLoadBalancer",
                            !.LoadBalancerName = n, !.Instances = <<"i-1">>] :
             n \in {"", "lb-2"}}

DeregisterForms ==
    {[EmptyForm EXCEPT !.Action = "DeregisterInstancesFromLoadBalancer",
                       !.LoadBalancerName = n, !.Instances = ids] :
        n \in {"lb-1"}, ids \in {<<>>, <<"i-1">>, <<"i-2">>, <<"i-1", "i-9">>, <<"i-1", "i-2">>}}
    \cup {[EmptyForm EXCEPT !.Action = "DeregisterInstancesFromLoadBalancer",
                            !.LoadBalancerName = "lb-2", !.Instances = <<"i-1">>]}

DescribeHealthForms ==
    {[EmptyForm EXCEPT !.Action = "DescribeInstanceHealth",
                       !.LoadBalancerName = n, !.Instances = ids] :
        n \in {"lb-1"}, ids \in {<<>>, <<"i-1">>, <<"i-9">>}}
    \cup {[EmptyForm EXCEPT !.Action = "DescribeInstanceHealth",
                            !.LoadBalancerName = "lb-2", !.Instances = <<"i-1">>]}

InService(id) ==
    [Description |-> "Instance is in service.", InstanceId |-> id,
     State |-> "InService", ReasonCode |-> "N/A"]

RegisterInstancesWithLoadBalancer(forms) ==
    \E form \in forms :
        form.Action = "RegisterInstancesWithLoadBalancer" /\ serveHTTP(form)

DeregisterInstancesFromLoadBalancer(forms) ==
    \E form \in forms :
        form.Action = "DeregisterInstancesFromLoadBalancer" /\ serveHTTP(form)

DescribeInstanceHealth(forms) ==
    \E form \in forms : form.Action = "DescribeInstanceHealth" /\ serveHTTP(form)

NextInstances ==
    \/ NewInstance
    \/ \E id \in InstanceIds : RemoveInstance(id)
    \/ ("lb-1" \notin DOMAIN lbs /\ NewLoadBalancer("lb-1"))
    \/ \E id \in InstanceIds : RegisterInstance(id, "lb-1")
    \/ ChangeInstanceState("lb-1", InService("i-1"))
    \/ RegisterInstancesWithLoadBalancer(RegisterForms)
    \/ DeregisterInstancesFromLoadBalancer(DeregisterForms)
    \/ DescribeInstanceHealth(DescribeHealthForms)
    \/ Done

SpecInstances == Init /\ [][NextInstances]_vars

----------------------------------------------------------------------------
(* Claims C4 and C5: registering instances, under SpecInstances. *)

\* the instance ids a request lists at consecutive indices from 1
Listed(form) == {form.Instances[i] : i \in 1..ProbeFrom(form.Instances, 1)}

Known == {instances[i] : i \in 1..Len(instances)}

\* C4: a RegisterInstancesWithLoadBalancer request on a stored load balancer
\* that lists an id that is no known instance is answered by InvalidInstance
\* and leaves the instances and the health states of the load balancer as
\* they were, also when known ids are listed before it.
C4_UnknownInstanceRejected ==
    [][(/\ AnswersOnStored("RegisterInstancesWithLoadBalancer")
        /\ Listed(req') \ Known # {})
          => /\ resp'.kind = "error"
             /\ resp'.Code = "InvalidInstance"
             /\ lbs' = lbs
             /\ instanceStates' = instanceStates]_vars

\* the known i-1 and then the unknown i-9 were listed for lb-1, which has an
\* instance and a health state: the request was refused
C4_Witness ==
    /\ req.Action = "RegisterInstancesWithLoadBalancer"
    /\ req.LoadBalancerName = "lb-1"
    /\ req.Instances = <<"i-1", "i-9">>
    /\ "i-1" \in Known
    /\ resp.Code = "InvalidInstance"
    /\ "lb-1" \in DOMAIN lbs
    /\ lbs["lb-1"].Instances # <<>>
    /\ MapSlice(instanceStates, "lb-1") # <<>>

\* C5: when a RegisterInstancesWithLoadBalancer request has succeeded for a
\* known instance on a load balancer, a DescribeInstanceHealth request for
\* that load balancer that follows it, and does not list the instance itself,
\* returns (unless it is refused for an unknown id of its own) a health state
\* of that instance with the state OutOfService.
C5_RegisteredIsOutOfService ==
    [][(/\ AnswersOnStored("RegisterInstancesWithLoadBalancer")
        /\ resp'.kind = "ok")
          => \A id \in Listed(req') : \A form \in DescribeHealthForms :
                (form.LoadBalancerName = req'.LoadBalancerName /\ id \notin Listed(form))
                   => \A out \in describeInstanceHealth(form, FormatReqId(reqId'))' :
                         out.kind = "ok"
                            => \E i \in 1..Len(out.body.InstanceStates) :
                                  /\ out.body.InstanceStates[i].InstanceId = id
                                  /\ out.body.InstanceStates[i].State = "OutOfService"]_vars

----------------------------------------------------------------------------
(* Requests on the health check of a load balancer. *)

\* health check targets, by their characters
Targets ==
    {<<>>,
     <<"H", "T", "T", "P", "8", "0">>,
     <<"T", "C", "P", ":", "8", "0">>,
     <<"H", "T", "T", "P", ":", "8", "0", "/", "p", "i", "n", "g">>,
     <<"H", "T", "T", "P", ":", "8", "0">>,
     <<"H", "T", "T", "P", ":", "/", "p", "i", "n", "g">>,
     <<"T", "C", "P", ":">>,
     <<"T", "C", "P", ":", "8", "0", "x">>,
     <<"x", "T", "C", "P", ":", "8", "0">>,
     <<"#", "H", "T", "T", "P", ":", "8", "0", "/">>,
     <<":", "8", "0", "/">>}

ConfigureForms ==
    {[EmptyForm EXCEPT !.Action = "ConfigureHealthCheck", !.LoadBalancerName = n,
                       !.HealthCheck = [HealthyThreshold |-> ht, Interval |-> iv,
                                        Target |-> t, Timeout |-> "5",
                                        UnhealthyThreshold |-> ut]] :
        n \in LBNames, ht \in {"", "10"}, iv \in {"30"}, ut \in {"", "2", "5"},
        t \in Targets}

HealthCreateForms ==
    {CreateForm("lb-1", <<"us-east-1a">>, <<>>, "", <<FullListenerParam("80")>>)}

ConfigureHealthCheck(forms) ==
    \E form \in forms : form.Action = "ConfigureHealthCheck" /\ serveHTTP(form)

NextHealthCheck ==
    \/ CreateLoadBalancer(HealthCreateForms)
    \/ NewLoadBalancer("lb-1")
    \/ ConfigureHealthCheck(ConfigureForms)
    \/ DescribeLoadBalancers(DescribeForms)
    \/ Done

SpecHealthCheck == Init /\ [][NextHealthCheck]_vars

----------------------------------------------------------------------------
(* Claim C9: the target of a health check, under SpecHealthCheck. *)

\* the target is TCP:<port>
IsTcpTarget(t) ==
    /\ Len(t) >= 5
    /\ SubSeq(t, 1, 4) = <<"T", "C", "P", ":">>
    /\ \A i \in 5..Len(t) : t[i] \in Digits

\* the target is <PROTOCOL>:<port>/<path>
IsPathTarget(t) ==
    \E c \in 2..Len(t) : \E e \in (c + 2)..Len(t) :
        /\ \A i \in 1..(c - 1) : t[i] \in WordChars
        /\ t[c] = ":"
        /\ \A i \in (c + 1)..(e - 1) : t[i] \in Digits
        /\ t[e] = "/"

AllHealthCheckFields(form) ==
    /\ form.HealthCheck.HealthyThreshold # ""
    /\ form.HealthCheck.Interval # ""
    /\ form.HealthCheck.Target # <<>>
    /\ form.HealthCheck.Timeout # ""
    /\ form.HealthCheck.UnhealthyThreshold # ""

\* C9: a ConfigureHealthCheck request with every field, on a stored load
\* balancer, is answered by a ValidationError and leaves the health check as
\* it was when the target is neither TCP:<port> nor <PROTOCOL>:<port>/<path>;
\* when the target is one of the two, the request succeeds and the health
\* check of the load balancer is the one of the request, its target as written.
C9_TargetDecides ==
    [][(AnswersOnStored("ConfigureHealthCheck") /\ AllHealthCheckFields(req'))
          => LET n == req'.LoadBalancerName
                 hc == req'.HealthCheck
             IN  IF IsTcpTarget(hc.Target) \/ IsPathTarget(hc.Target)
                 THEN /\ resp'.kind = "ok"
                      /\ lbs'[n].HealthCheck =
                            [HealthyThreshold |-> Atoi(hc.HealthyThreshold),
                             Interval |-> Atoi(hc.Interval),
                             Target |-> hc.Target,
                             Timeout |-> Atoi(hc.Timeout),
                             UnhealthyThreshold |-> Atoi(hc.UnhealthyThreshold)]
                 ELSE /\ resp'.kind = "error"
                      /\ resp'.Code = "ValidationError"
                      /\ lbs' = lbs]_vars

----------------------------------------------------------------------------
(* Requests to the fake Route53 server. *)

RecordSets ==
    {[Name |-> "www.example.com", Type |-> "A"],
     [Name |-> "www.example.com", Type |-> "TXT"],
     [Name |-> "db.example.com", Type |-> "A"]}

Changes == {[Action |-> a, Record |-> r] : a \in {"CREATE", "DELETE", "UPSERT"},
                                            r \in RecordSets}

Batches == {<<>>} \cup {<<c>> : c \in Changes}
              \cup {<<c, d>> : c \in Changes, d \in Changes}

RRSetPath == <<"", "2013-04-01", "hostedzone", "Z1", "rrset">>

ChangeRequests ==
    {DNSRequest("POST", RRSetPath, TRUE, b) : b \in Batches}
        \cup {DNSRequest("POST", RRSetPath, FALSE, <<>>)}

ListRequests == {DNSRequest("GET", RRSetPath, TRUE, <<>>)}

UnroutedRequests ==
    {DNSRequest(m, path, TRUE, <<>>) :
        m \in {"DELETE"},
        path \in {RRSetPath, <<"", "2013-04-01", "hostedzone", "Z1">>}}
      \cup {DNSRequest(m, <<"", "2013-04-01", "hostedzone", "Z1", "change">>, TRUE, <<>>) :
              m \in {"GET", "POST"}}

Creates(request) ==
    Cardinality({i \in 1..Len(request.Changes) : request.Changes[i].Action = "CREATE"})

ChangeResourceRecordSets(requests) ==
    \E request \in requests :
        /\ request.Method = "POST"
        /\ Len(records) + Creates(request) <= MaxRecords
        /\ route53ServeHTTP(request)

ListResourceRecordSets(requests) ==
    \E request \in requests : request.Method = "GET" /\ route53ServeHTTP(request)

UnroutedDNS(requests) ==
    \E request \in requests : ~Routed(request) /\ route53ServeHTTP(request)

NextDNS ==
    \/ ChangeResourceRecordSets(ChangeRequests)
    \/ ListResourceRecordSets(ListRequests)
    \/ UnroutedDNS(UnroutedRequests)
    \/ Done

SpecDNS == Init /\ [][NextDNS]_vars

----------------------------------------------------------------------------
(* Claim C10: the round trip of a DNS record, under SpecDNS. *)

\* C10: from an empty record list, after a batch of one CREATE of a record
\* named N the list request answers exactly one record, named N; after a
\* following batch of one DELETE for N the list request answers no record.
C10_RoundTrip ==
    req # NoReq =>
        /\ trip.phase = 1 => resp.kind = "ok"
        /\ trip.phase = 2 => /\ resp.kind = "ok"
                             /\ Len(resp.body) = 1
                             /\ resp.body[1].Name = trip.name
        /\ trip.phase = 3 => resp.kind = "ok"
        /\ trip.phase = 4 => resp.kind = "ok" /\ resp.body = <<>>

C10_Witness ==
    /\ trip.phase = 4
    /\ req = DNSRequest("GET", RRSetPath, TRUE, <<>>)
    /\ resp.kind = "ok"
    /\ records = <<>>

----------------------------------------------------------------------------
(* Claim C11: a DELETE change, under SpecDNS. *)

\* the records of recs that are not named name, in their order
NotNamed(recs, name) ==
    LET keep(r) == r.Name # name IN SelectSeq(recs, keep)

AnswersOneDelete ==
    /\ req = NoReq
    /\ req' # NoReq
    /\ "Method" \in DOMAIN req'
    /\ Routed(req')
    /\ req'.Method = "POST"
    /\ req'.Decodes
    /\ Len(req'.Changes) = 1
    /\ req'.Changes[1].Action = "DELETE"

\* C11: whatever the record list holds, a batch of one DELETE change for
\* name N is answered normally and leaves the records with another name, in
\* their order, and no record named N.
C11_DeleteRemovesEveryMatch ==
    [][AnswersOneDelete
          => /\ resp'.kind = "ok"
             /\ records' = NotNamed(records, req'.Changes[1].Record.Name)]_vars

----------------------------------------------------------------------------
(* The whole store: requests and test-control calls on lb-1, its instances *)
(* and its tags; lb-2 is never stored, i-9 is no instance.                 *)

StoreRegisterForms ==
    {[EmptyForm EXCEPT !.Action = "RegisterInstancesWithLoadBalancer",
                       !.LoadBalancerName = "lb-1", !.Instances = ids] :
        ids \in {<<"i-1">>, <<"i-1", "i-2">>}}

StoreDeregisterForms ==
    {[EmptyForm EXCEPT !.Action = "DeregisterInstancesFromLoadBalancer",
                       !.LoadBalancerName = "lb-1", !.Instances = ids] :
        ids \in {<<"i-1">>, <<"i-2", "i-1">>, <<"i-1", "i-9">>, <<"i-9">>}}

AddTagsForms ==
    {[EmptyForm EXCEPT !.Action = "AddTags", !.LoadBalancerNames = <<"lb-1">>,
                       !.Tags = <<[Key |-> "env", Value |-> "test"]>>]}

AddTags(forms) ==
    \E form \in forms : form.Action = "AddTags" /\ serveHTTP(form)

NextStore ==
    \/ NewInstance
    \/ ("lb-1" \notin DOMAIN lbs /\ NewLoadBalancer("lb-1"))
    \/ RemoveLoadBalancer("lb-1")
    \/ \E id \in InstanceIds : RegisterInstance(id, "lb-1")
    \/ \E id \in InstanceIds : DeregisterInstance(id, "lb-1")
    \/ RegisterInstancesWithLoadBalancer(StoreRegisterForms)
    \/ DeregisterInstancesFromLoadBalancer(StoreDeregisterForms)
    \/ DeleteLoadBalancer(DeleteForms)
    \/ AddTags(AddTagsForms)
    \/ UnknownAction(UnknownForms)
    \/ Done

SpecStore == Init /\ [][NextStore]_vars

----------------------------------------------------------------------------
(* Claim C12: deleting a load balancer that is not stored, under SpecStore. *)

AnswersDelete ==
    /\ req = NoReq
    /\ req' # NoReq
    /\ "Action" \in DOMAIN req'
    /\ req'.Action = "DeleteLoadBalancer"
    /\ req'.LoadBalancerName # ""

\* C12: a DeleteLoadBalancer request that names a load balancer that is not
\* stored is answered with success and leaves the load balancers, the
\* instances, the health states and the tags as they were; after any
\* DeleteLoadBalancer request for a name, the same request again is such a
\* request: it succeeds and leaves the store as the first one left it.
C12_DeleteOfAbsentChangesNothing ==
    [][AnswersDelete
          => /\ req'.LoadBalancerName \notin DOMAIN lbs
                  => /\ resp'.kind = "ok"
                     /\ UNCHANGED <<lbs, instances, instanceStates, instCount, lbTags>>
             /\ req'.LoadBalancerName \notin DOMAIN lbs'
             /\ \A form \in DeleteForms :
                   form = req'
                      => \A again \in deleteLoadBalancer(form, "again")' :
                            /\ again.kind = "ok"
                            /\ again.lbs = lbs'
                            /\ again.instanceStates = instanceStates'
                            /\ again.lbTags = lbTags']_vars

C12_Witness ==
    /\ req # NoReq
    /\ "Action" \in DOMAIN req
    /\ req.Action = "DeleteLoadBalancer"
    /\ req.LoadBalancerName = "lb-2"
    /\ resp.kind = "ok"
    /\ "lb-1" \in DOMAIN lbs
    /\ lbs["lb-1"].Instances # <<>>
    /\ DOMAIN instanceStates # {}
    /\ DOMAIN lbTags # {}

----------------------------------------------------------------------------
(* Concurrent connections to the ELB server.  The test makes its instances *)
(* while no request is in flight.                                          *)

ConcurrentRequests ==
    {CreateForm("lb-1", <<"us-east-1a">>, <<>>, "", <<FullListenerParam("80")>>),
     CreateForm("lb-1", <<"us-east-1a">>, <<>>, "", <<FullListenerParam("443")>>),
     [EmptyForm EXCEPT !.Action = "RegisterInstancesWithLoadBalancer",
                       !.LoadBalancerName = "lb-1", !.Instances = <<"i-1">>],
     [EmptyForm EXCEPT !.Action = "DescribeLoadBalancers"],
     [EmptyForm EXCEPT !.Action = "DescribeLoadBalancerPolicies"]}

NoneInFlight == \A c \in Clients : conns[c].pc = "idle"

NextConcurrent ==
    \/ (NoneInFlight /\ NewInstance)
    \/ \E c \in Clients : \E request \in ConcurrentRequests : Arrive(c, request)
    \/ \E c \in Clients : Lock(c)
    \/ \E c \in Clients : Dispatch(c)
    \/ \E c \in Clients : BeginHandler(c)
    \/ \E c \in Clients : EndHandler(c)
    \/ \E c \in Clients : Unlock(c)

SpecConcurrent == Init /\ [][NextConcurrent]_vars

----------------------------------------------------------------------------
(* Concurrent connections to both servers, for the request ids. *)

IdRequests ==
    {[EmptyForm EXCEPT !.Action = "DescribeLoadBalancers"],
     [EmptyForm EXCEPT !.Action = "DescribeLoadBalancerPolicies"],
     DNSRequest("POST", RRSetPath, TRUE,
                <<[Action |-> "CREATE",
                   Record |-> [Name |-> "www.example.com", Type |-> "A"]],
                  [Action |-> "DELETE",
                   Record |-> [Name |-> "www.example.com", Type |-> "A"]]>>),
     DNSRequest("GET", RRSetPath, TRUE, <<>>),
     DNSRequest("DELETE", RRSetPath, TRUE, <<>>)}

NextRequestIds ==
    \/ \E c \in Clients : \E request \in IdRequests : Arrive(c, request)
    \/ \E c \in Clients : Lock(c)
    \/ \E c \in Clients : Dispatch(c)
    \/ \E c \in Clients : BeginHandler(c)
    \/ \E c \in Clients : EndHandler(c)
    \/ \E c \in Clients : Unlock(c)
    \/ \E c \in Clients : Route53Lock(c)
    \/ \E c \in Clients : Route53Dispatch(c)
    \/ \E c \in Clients : Route53BeginHandler(c)
    \/ \E c \in Clients : Route53EndHandler(c)
    \/ \E c \in Clients : Route53Unlock(c)

SpecRequestIds == Init /\ [][NextRequestIds]_vars

----------------------------------------------------------------------------
(* Claim C13 under SpecConcurrent, claim C14 under SpecRequestIds. *)

\* the connections inside the locked part of serveHTTP of a server
Holding(dns) ==
    {c \in Clients : /\ conns[c].pc \in {"locked", "dispatched", "running", "returned"}
                     /\ IsDNS(conns[c].request) = dns}

\* connection c ends the handling of its request in this step
Completes(c) == conns[c].pc \in {"locked", "running"} /\ conns'[c].pc = "returned"

\* connection c starts its handler, which reads the store, in this step
Starts(c) == conns[c].pc = "dispatched" /\ conns'[c].pc = "running"

Left(c) ==
    IF IsDNS(conns[c].request)
    THEN [store |-> <<records', r53ReqId'>>, resp |-> conns'[c].resp]
    ELSE [store |-> <<lbs', instanceStates', lbTags', reqId'>>,
          resp |-> conns'[c].resp]

\* C13: on each server at most one connection is between Lock and Unlock;
\* the store and the request counter change only in a step of the connection
\* that holds the lock; when a request has been handled, the store and the
\* response are those of handling it alone in the state in which it took
\* the lock; and no handler starts while the handler of another connection
\* to the server has written a part of what it writes.
C13_HandledOneAfterAnother ==
    [][/\ \A dns \in BOOLEAN : Cardinality(Holding(dns)') <= 1
       /\ <<lbs, instanceStates, lbTags, reqId>>' # <<lbs, instanceStates, lbTags, reqId>>
             => mutex # 0 /\ conns'[mutex] # conns[mutex]
       /\ <<records, r53ReqId>>' # <<records, r53ReqId>>
             => r53Mutex # 0 /\ conns'[r53Mutex] # conns[r53Mutex]
       /\ \A c \in Clients :
             /\ Completes(c) => Left(c) \in conns[c].expected
             /\ Starts(c) => \A d \in Clients \ {c} :
                                IsDNS(conns[d].request) = IsDNS(conns[c].request)
                                   => conns[d].pc # "running"]_vars

C13_Witness ==
    \E c \in Clients : \E d \in Clients \ {c} :
        /\ conns[c].pc = "running"
        /\ ~IsDNS(conns[c].request)
        /\ conns[c].request.Action = "RegisterInstancesWithLoadBalancer"
        /\ conns[c].out.kind = "ok"
        /\ instanceStates # conns[c].out.instanceStates \/ lbs # conns[c].out.lbs
        /\ conns[d].pc = "arrived"
        /\ ~IsDNS(conns[d].request)
        /\ conns[d].request.Action = "DescribeLoadBalancers"
        /\ reqId >= 2

\* the number a request id is the format of
IdNumber(id) == CHOOSE n \in 0..(MaxReqId + MaxR53ReqId + MaxClients) : FormatReqId(n) = id

Increasing(ids) ==
    \A i \in 1..Len(ids) : \A j \in 1..Len(ids) :
        i < j => ids[i] # ids[j] /\ IdNumber(ids[i]) < IdNumber(ids[j])

\* C14: the request ids a server hands to its handlers, in the order in which
\* the requests took the lock, are pairwise distinct and increase; the request
\* counter of a server never decreases.
C14_RequestIdsIncrease ==
    [][/\ Increasing(handed'.elb)
       /\ Increasing(handed'.r53)
       /\ reqId' >= reqId
       /\ r53ReqId' >= r53ReqId]_vars

C14_Witness ==
    /\ Len(handed.elb) >= 3
    /\ Len(handed.r53) >= 2
    /\ \E c \in Clients : \E d \in Clients \ {c} :
          /\ conns[c].pc = "dispatched"
          /\ conns[d].pc = "arrived"
          /\ IsDNS(conns[d].request) = IsDNS(conns[c].request)

----------------------------------------------------------------------------
(* Claims C15, C17, C18 and C20: the instances of a load balancer and the *)
(* whole store, under SpecStore.                                          *)

\* the ids of the instances registered with the stored load balancer n
RegisteredIds(store, n) ==
    [i \in 1..Len(store[n].Instances) |-> store[n].Instances[i].InstanceId]

\* the ids the health states of load balancer n carry
StateIds(states, n) ==
    [i \in 1..Len(MapSlice(states, n)) |-> MapSlice(states, n)[i].InstanceId]

Range(seq) == {seq[i] : i \in 1..Len(seq)}

AnswersDeregister ==
    /\ req = NoReq
    /\ req' # NoReq
    /\ "Action" \in DOMAIN req'
    /\ req'.Action = "DeregisterInstancesFromLoadBalancer"
    /\ req'.LoadBalancerName \in DOMAIN lbs

\* C15: after a DeregisterInstancesFromLoadBalancer request on the stored load
\* balancer L has succeeded, no listed id is among the instances registered
\* with L and no health state of L carries a listed id.
C15_DeregisteredAreGone ==
    [][(AnswersDeregister /\ resp'.kind = "ok")
          => LET L == req'.LoadBalancerName
             IN  /\ Listed(req') \cap Range(RegisteredIds(lbs', L)) = {}
                 /\ Listed(req') \cap Range(StateIds(instanceStates', L)) = {}]_vars

\* C17: for every stored load balancer, the instance ids its health states
\* carry are the ids of the instances registered with it, each as often.
C17_StatesParallelToInstances ==
    \A n \in DOMAIN lbs :
        LET registered == RegisteredIds(lbs, n)
            states == StateIds(instanceStates, n)
        IN  \A id \in Range(registered) \cup Range(states) :
                Cardinality({i \in 1..Len(registered) : registered[i] = id})
                    = Cardinality({i \in 1..Len(states) : states[i] = id})

AnswersUnknown ==
    /\ req = NoReq
    /\ req' # NoReq
    /\ "Action" \in DOMAIN req'
    /\ req'.Action \notin Handlers

\* C18: a request whose Action has no handler is answered by the error 400
\* InvalidParameterValue, and leaves the load balancers, the instances, the
\* health states, the tags and the request counter as they were.
C18_UnknownActionRejected ==
    [][AnswersUnknown
          => /\ resp'.kind = "error"
             /\ resp'.StatusCode = 400
             /\ resp'.Code = "InvalidParameterValue"
             /\ UNCHANGED <<lbs, instances, instanceStates, instCount, lbTags, reqId>>]_vars

C18_Witness ==
    /\ req # NoReq
    /\ "Action" \in DOMAIN req
    /\ req.Action \notin Handlers
    /\ resp.kind = "error"
    /\ reqId >= 1
    /\ "lb-1" \in DOMAIN lbs
    /\ lbs["lb-1"].Instances # <<>>
    /\ DOMAIN lbTags # {}

\* C20: a DeregisterInstancesFromLoadBalancer request on the stored load
\* balancer L that is answered by InvalidInstance leaves the instances
\* registered with L and the health states of L as they were.
C20_FailedDeregisterChangesNothing ==
    [][(AnswersDeregister /\ resp'.kind = "error" /\ resp'.Code = "InvalidInstance")
          => LET L == req'.LoadBalancerName
             IN  /\ lbs'[L].Instances = lbs[L].Instances
                 /\ MapSlice(instanceStates', L) = MapSlice(instanceStates, L)]_vars

----------------------------------------------------------------------------
(* Claim C16: test-control calls while requests are handled.  The calls   *)
(* take no lock (NewInstance .. ChangeInstanceState never touch           *)
(* srv.mutex), so they run at any moment.  The calls here write           *)
(* srv.instances and srv.instCount, which the handlers of the requests    *)
(* here neither read nor write: the two never touch the same memory, and  *)
(* every interleaving is an outcome of the program.                       *)

RaceRequests ==
    {CreateForm("lb-1", <<"us-east-1a">>, <<>>, "", <<FullListenerParam("80")>>),
     [EmptyForm EXCEPT !.Action = "DeleteLoadBalancer", !.LoadBalancerName = "lb-1"],
     [EmptyForm EXCEPT !.Action = "DescribeLoadBalancers"]}

NextRace ==
    \/ NewInstance
    \/ \E id \in InstanceIds : RemoveInstance(id)
    \/ \E c \in Clients : \E request \in RaceRequests : Arrive(c, request)
    \/ \E c \in Clients : Lock(c)
    \/ \E c \in Clients : Dispatch(c)
    \/ \E c \in Clients : BeginHandler(c)
    \/ \E c \in Clients : EndHandler(c)
    \/ \E c \in Clients : Unlock(c)

SpecRace == Init /\ [][NextRace]_vars

\* a step of a test-control call: the store changes and no connection moves
TestControlStep ==
    /\ conns' = conns
    /\ <<lbs, instances, instanceStates, instCount, lbTags>>'
          # <<lbs, instances, instanceStates, instCount, lbTags>>

\* C16: a test-control call reads and writes the store only while no handler
\* of a request is running.
C16_TestControlOutsideHandlers ==
    [][TestControlStep => \A c \in Clients : conns[c].pc # "running"]_vars

----------------------------------------------------------------------------
(* Claim C19: requests to the Route53 server that no handler is mapped to, *)
(* under SpecDNS.                                                          *)

\* a handler is mapped to the last segment of the path and the method
MappedByLastSegment(request) ==
    /\ Len(request.Path) >= 1
    /\ request.Path[Len(request.Path)] \in DOMAIN route53Actions
    /\ request.Method \in route53Actions[request.Path[Len(request.Path)]]

AnswersDNS ==
    /\ req = NoReq
    /\ req' # NoReq
    /\ "Method" \in DOMAIN req'

\* C19: a request to the Route53 server, whatever the number of segments of
\* its path, to whose last path segment and method no handler is mapped is
\* answered by the error 400 InvalidParameterValue and leaves the records as
\* they were.
C19_UnmappedRejected ==
    [][(AnswersDNS /\ ~MappedByLastSegment(req'))
          => /\ resp'.kind = "error"
             /\ resp'.StatusCode = 400
             /\ resp'.Code = "InvalidParameterValue"
             /\ records' = records]_vars

----------------------------------------------------------------------------
(* Claim C21: how a request with a handler ends, under SpecListeners. *)

AnswersSupported ==
    /\ req = NoReq
    /\ req' # NoReq
    /\ "Action" \in DOMAIN req'
    /\ req'.Action \in Handlers

\* C21: a request whose Action has a handler is answered by a success or by
\* an error response, whatever the store holds; a CreateLoadBalancerListeners
\* request, and a ConfigureHealthCheck request with every field and a target
\* the handler accepts, that names a load balancer that is not stored is
\* answered by an error response and leaves the store as it was.
C21_HandlersNeverAbort ==
    [][AnswersSupported
          => /\ resp'.kind \in {"ok", "error"}
             /\ (/\ req'.Action \in {"CreateLoadBalancerListeners", "ConfigureHealthCheck"}
                 /\ req'.LoadBalancerName \notin DOMAIN lbs
                 /\ req'.Action = "ConfigureHealthCheck"
                       => /\ AllHealthCheckFields(req')
                          /\ tcpReg(req'.HealthCheck.Target)
                                \/ pathReg(req'.HealthCheck.Target))
                   => /\ resp'.kind = "error"
                      /\ UNCHANGED <<lbs, instances, instanceStates, instCount, lbTags>>]_vars

----------------------------------------------------------------------------
(* Concurrent connections to both servers under fair scheduling: requests  *)
(* that succeed, that are answered by an error, that name no handler and   *)
(* that abort.                                                             *)

FairRequests ==
    {[EmptyForm EXCEPT !.Action = "DescribeLoadBalancers"],
     [EmptyForm EXCEPT !.Action = "DescribeLoadBalancers",
                       !.LoadBalancerNames = <<"lb-9">>],
     [EmptyForm EXCEPT !.Action = "DescribeLoadBalancerPolicies"],
     CreateListenersForm("lb-1", <<FullListenerParam("80")>>),
     DNSRequest("GET", RRSetPath, TRUE, <<>>),
     DNSRequest("DELETE", RRSetPath, TRUE, <<>>),
     DNSRequest("GET", <<"", "2013-04-01", "hostedzone", "Z1">>, TRUE, <<>>)}

\* the request takes a request id of its server
TakesId(request) ==
    IF IsDNS(request) THEN Len(request.Path) >= 5 /\ Routed(request)
    ELSE request.Action \in Handlers

FairArrive(c, request) ==
    /\ TakesId(request)
          => reqId + r53ReqId + Cardinality(Pending(TRUE) \cup Pending(FALSE))
                < MaxServed
    /\ Arrive(c, request)

NextFair ==
    \/ \E c \in Clients : \E request \in FairRequests : FairArrive(c, request)
    \/ \E c \in Clients : Lock(c)
    \/ \E c \in Clients : Dispatch(c)
    \/ \E c \in Clients : BeginHandler(c)
    \/ \E c \in Clients : EndHandler(c)
    \/ \E c \in Clients : Unlock(c)
    \/ \E c \in Clients : Route53Lock(c)
    \/ \E c \in Clients : Route53Dispatch(c)
    \/ \E c \in Clients : Route53BeginHandler(c)
    \/ \E c \in Clients : Route53EndHandler(c)
    \/ \E c \in Clients : Route53Unlock(c)

\* the goroutine of a connection that holds the lock of its server takes its
\* next step
Runs(c) ==
    \/ Dispatch(c) \/ BeginHandler(c) \/ EndHandler(c) \/ Unlock(c)
    \/ Route53Dispatch(c) \/ Route53BeginHandler(c) \/ Route53EndHandler(c)
    \/ Route53Unlock(c)

\* A goroutine that can run is scheduled; sync.Mutex hands the mutex to a
\* goroutine that keeps waiting for it (starvation mode), so a waiter is not
\* passed over for ever.
Fairness ==
    \A c \in Clients :
        /\ WF_vars(Runs(c))
        /\ SF_vars(Lock(c) \/ Route53Lock(c))

SpecFair == Init /\ [][NextFair]_vars /\ Fairness

----------------------------------------------------------------------------
(* Claim C22 under SpecFair. *)

HoldsLock(c) == conns[c].pc \in {"locked", "dispatched", "running", "returned"}

\* C22: a request that has taken the lock of its server releases it later,
\* whether it is answered by a success or by an error, names no handler or
\* aborts; a request that waits for the lock has its response written (or has
\* aborted) later and is finished; a lock that is held is free again later.
C22_LockIsReleased ==
    /\ \A c \in Clients : HoldsLock(c) ~> (conns[c].pc = "idle" /\ mutex # c /\ r53Mutex # c)
    /\ \A c \in Clients : (conns[c].pc = "arrived") ~> (conns[c].pc = "returned")
    /\ (mutex # 0) ~> (mutex = 0)
    /\ (r53Mutex # 0) ~> (r53Mutex = 0)

\* a request that aborted holds the lock of the ELB server, after an earlier
\* request released it, while another request waits for it
C22_Witness ==
    \E c, d \in Clients :
        /\ c # d
        /\ mutex = c
        /\ conns[c].pc = "returned"
        /\ conns[c].resp.kind = "panic"
        /\ conns[d].pc = "arrived"
        /\ ~IsDNS(conns[d].request)
        /\ Len(handed.elb) >= 2

====
